---- MODULE Spec2Model ----
(***************************************************************************)
(* Streaming K-line buffer (src/indicators/streaming_buffer.py) and the    *)
(* signal bookkeeping of the live dashboard (src/live_dashboard.py).       *)
(*                                                                         *)
(* An Optional value of the source is a sequence of length 0 (None) or 1.  *)
(***************************************************************************)
EXTENDS Integers, Sequences, FiniteSets, TLC

\* ------------------------------------------------------------------------
\* Bounds of the model
\* ------------------------------------------------------------------------

\* open_time values of the ticks are 0..MaxTs (0 is a legal open_time)
MaxTs == 2

\* capacity of the closed ring (max_closed, 500 by default), scaled down
MaxClosed == 2

Timestamps == 0..MaxTs

\* OHLCV payloads of the ticks: one rising and one falling shape, so that
\* max(high), min(low) and "last close / last volume" are all different
Shapes ==
    { [open |-> 2, high |-> 3, low |-> 2, close |-> 3, volume |-> 6],
      [open |-> 2, high |-> 2, low |-> 1, close |-> 1, volume |-> 7] }

\* the well-formed ticks handed to update
Ticks ==
    { [timestamp |-> t, open |-> s.open, high |-> s.high, low |-> s.low,
       close |-> s.close, volume |-> s.volume, is_closed |-> x] :
         t \in Timestamps, s \in Shapes, x \in BOOLEAN }

\* the longest series handed to an indicator kernel
MaxBars == 30

\* the period of the RSI instance that is fed price by price
RSIPeriod == 2

\* the prices fed to it are 1..MaxPrice, at most MaxPrices of them
MaxPrice == 3

MaxPrices == 6

\* the largest min_resonance handed to the resonance strategy
MaxResonance == 2

\* the candle objects alive at one time
MaxObjects == 7

\* readings of the indicator an analyzer takes
MaxAnalyzerCalls == 6

Max(a, b) == IF a >= b THEN a ELSE b

Min(a, b) == IF a <= b THEN a ELSE b

Last(q) == q[Len(q)]

\* ------------------------------------------------------------------------
\* State
\* ------------------------------------------------------------------------
VARIABLES
    closed_candles,   \* StreamingKlineBuffer.closed_candles (deque, oldest first)
    active_candle,    \* StreamingKlineBuffer.active_candle  (Optional)
    last_closed_ts,   \* StreamingKlineBuffer.last_closed_ts (Optional)
    maxlen,           \* closed_candles.maxlen, the max_closed of __init__
    raised,           \* an exception escaped from update
    last,             \* the last update call: its argument, what it did
                      \* and whether it found the ring full
    run,              \* summary of the trailing run of calls sharing one open_time
    state,            \* LiveDashboardSystem.state (DashboardState)
    now,              \* datetime.now(), in units of ten minutes
    calls,            \* history of the update_analysis invocations
    loops,            \* the reconnect loop of each live system
    call,             \* the last call into the strategy layer and its outcome
    rsi_indicator,    \* an RSIIndicator instance fed one price at a time
    signal_history,   \* LiveTradingSystemV2.signal_history
    heap,             \* the candle objects and who holds a reference to them
    analyzer          \* the MACDAnalyzer instance

bufvars == <<closed_candles, active_candle, last_closed_ts, maxlen, raised>>

dashvars == <<state, now, calls>>

\* the indicator instances that keep state between calls
kernelvars == <<rsi_indicator>>

\* LiveTradingSystemV2 beside its primary buffer
v2vars == <<signal_history>>

\* the buffer and its caller as objects and references
heapvars == <<heap>>

\* the MACDAnalyzer instance
analyzervars == <<analyzer>>

vars ==
    <<closed_candles, active_candle, last_closed_ts, maxlen, raised, last, run,
      state, now, calls, loops, call,
      rsi_indicator, signal_history, heap, analyzer>>

\* the buffer object as one value
Buffer ==
    [closed_candles |-> closed_candles, active_candle |-> active_candle,
     last_closed_ts |-> last_closed_ts, maxlen |-> maxlen, raised |-> raised]

\* StreamingKlineBuffer.__init__
NewBuffer(max_closed) ==
    [closed_candles |-> <<>>, active_candle |-> <<>>,
     last_closed_ts |-> <<>>, maxlen |-> max_closed, raised |-> FALSE]

\* ------------------------------------------------------------------------
\* StreamingCandle
\* ------------------------------------------------------------------------

\* merge raises ValueError when the timestamps differ
MergeRaises(self, other) == self.timestamp # other.timestamp

MergeKeepsOwnHigh(self, other) ==
    [self EXCEPT !.low = Min(self.low, other.low),
                 !.close = other.close,
                 !.volume = other.volume,
                 !.is_closed = other.is_closed]

\* merge, when it does not raise
Merge(self, other) ==
    [self EXCEPT !.high = Max(self.high, other.high),
                 !.low = Min(self.low, other.low),
                 !.close = other.close,
                 !.volume = other.volume,
                 !.is_closed = other.is_closed]

\* clone: dataclasses.replace(self), a field-by-field copy
Clone(self) ==
    [timestamp |-> self.timestamp, open |-> self.open, high |-> self.high,
     low |-> self.low, close |-> self.close, volume |-> self.volume,
     is_closed |-> self.is_closed]

\* ------------------------------------------------------------------------
\* StreamingKlineBuffer
\* ------------------------------------------------------------------------

\* Python truthiness of an Optional[int]: None and 0 are both falsy
Truthy(opt) == opt # <<>> /\ opt[1] # 0

DequeAppendDropsSecond(q, n, c) ==
    IF n = 0 THEN <<>>
    ELSE IF Len(q) >= n THEN Append(<<Head(q)>> \o Tail(Tail(q)), c)
    ELSE Append(q, c)

\* deque(maxlen=n).append: a full deque drops its leftmost element
DequeAppend(q, n, c) ==
    IF n = 0 THEN <<>>
    ELSE IF Len(q) >= n THEN Append(Tail(q), c)
    ELSE Append(q, c)

FinalizeKeepsLastClosed(b) ==
    IF b.active_candle = <<>> THEN b
    ELSE [b EXCEPT
            !.closed_candles =
                DequeAppend(b.closed_candles, b.maxlen,
                            [b.active_candle[1] EXCEPT !.is_closed = TRUE]),
            !.active_candle = <<>>]

\* _finalize_active
FinalizeActive(b) ==
    IF b.active_candle = <<>> THEN b
    ELSE [b EXCEPT
            !.last_closed_ts = <<b.active_candle[1].timestamp>>,
            !.closed_candles =
                DequeAppend(b.closed_candles, b.maxlen,
                            [b.active_candle[1] EXCEPT !.is_closed = TRUE]),
            !.active_candle = <<>>]

\* the replay guard of update (first statement)
IsReplay(b, candle) ==
    /\ candle.is_closed
    /\ Truthy(b.last_closed_ts)
    /\ candle.timestamp <= b.last_closed_ts[1]

\* the branch of update that merges into the active candle
SameCandle(b, candle) ==
    /\ b.active_candle # <<>>
    /\ candle.timestamp = b.active_candle[1].timestamp

\* the merge-or-replace statement of update
MergeOrReplace(b, candle) ==
    IF SameCandle(b, candle)
    THEN [b EXCEPT !.active_candle = <<Merge(b.active_candle[1], candle)>>]
    ELSE [FinalizeActive(b) EXCEPT !.active_candle = <<Clone(candle)>>]

UpdateMergesAnyActive(b, candle) ==
    IF IsReplay(b, candle) THEN b
    ELSE IF b.active_candle # <<>>
         THEN IF MergeRaises(b.active_candle[1], candle)
              THEN [b EXCEPT !.raised = TRUE]
              ELSE LET b1 == [b EXCEPT !.active_candle =
                                   <<Merge(b.active_candle[1], candle)>>]
                   IN  IF b1.active_candle[1].is_closed
                       THEN FinalizeActive(b1) ELSE b1
         ELSE LET b1 == [b EXCEPT !.active_candle = <<Clone(candle)>>]
              IN  IF b1.active_candle[1].is_closed
                  THEN FinalizeActive(b1) ELSE b1

UpdateSkipsSealOfPrior(b, candle) ==
    IF IsReplay(b, candle) THEN b
    ELSE LET b1 == IF SameCandle(b, candle)
                   THEN [b EXCEPT !.active_candle =
                             <<Merge(b.active_candle[1], candle)>>]
                   ELSE [b EXCEPT !.active_candle = <<Clone(candle)>>]
         IN  IF b1.active_candle # <<>> /\ b1.active_candle[1].is_closed
             THEN FinalizeActive(b1) ELSE b1

\* update
Update(b, candle) ==
    IF IsReplay(b, candle) THEN b
    ELSE IF SameCandle(b, candle) /\ MergeRaises(b.active_candle[1], candle)
         THEN [b EXCEPT !.raised = TRUE]
         ELSE LET b1 == MergeOrReplace(b, candle)
              IN  IF b1.active_candle # <<>> /\ b1.active_candle[1].is_closed
                  THEN FinalizeActive(b1) ELSE b1

\* update_from_ws: builds the candle from the "k" payload and calls update
UpdateFromWs(b, payload) ==
    Update(b, [timestamp |-> payload.t, open |-> payload.o, high |-> payload.h,
               low |-> payload.l, close |-> payload.c, volume |-> payload.v,
               is_closed |-> payload.x])

\* what an update call does with its argument, from the branch it takes
Outcome(b, candle) ==
    IF IsReplay(b, candle) THEN "dropped"
    ELSE IF SameCandle(b, candle) THEN "merged"
    ELSE IF b.active_candle # <<>> THEN "replaced"
    ELSE "created"

\* the trailing run of update calls that share one open_time
NextRun(r, candle, outcome) ==
    IF r.n > 0 /\ r.timestamp = candle.timestamp
    THEN [timestamp |-> r.timestamp,
          high |-> Max(r.high, candle.high),
          low |-> Min(r.low, candle.low),
          close |-> candle.close,
          volume |-> candle.volume,
          last_closed |-> candle.is_closed,
          clean |-> r.clean /\ ~r.last_closed /\ outcome # "dropped",
          n |-> 2]
    ELSE [timestamp |-> candle.timestamp,
          high |-> candle.high,
          low |-> candle.low,
          close |-> candle.close,
          volume |-> candle.volume,
          last_closed |-> candle.is_closed,
          clean |-> outcome \in {"created", "replaced"},
          n |-> 1]

NoTick ==
    [timestamp |-> 0, open |-> 0, high |-> 0, low |-> 0, close |-> 0,
     volume |-> 0, is_closed |-> FALSE]

NoRun ==
    [timestamp |-> 0, high |-> 0, low |-> 0, close |-> 0, volume |-> 0,
     last_closed |-> FALSE, clean |-> FALSE, n |-> 0]

\* ------------------------------------------------------------------------
\* StreamingKlineBuffer as objects: who holds a reference to which candle
\* ------------------------------------------------------------------------

Addresses == 1..MaxObjects

\* the buffer after __init__ and a caller that holds nothing: tick is the
\* candle the caller handed to update last, returned the list it got from
\* get_candles last, candles the list get_candles is building
NewHeap(max_closed) ==
    [objects |-> [a \in Addresses |-> NoTick], closed |-> <<>>,
     active |-> <<>>, last_closed_ts |-> <<>>, maxlen |-> max_closed,
     tick |-> <<>>, returned |-> <<>>, candles |-> <<>>]

Range(q) == {q[i] : i \in 1..Len(q)}

\* the objects somebody holds
Referenced(h) ==
    Range(h.closed) \cup Range(h.active) \cup Range(h.tick)
      \cup Range(h.returned) \cup Range(h.candles)

\* a new object: the first address nobody holds
Alloc(h) ==
    CHOOSE a \in Addresses \ Referenced(h) :
        \A b \in Addresses \ Referenced(h) : a <= b

\* the objects in the order of who holds them
Holders(h) == h.closed \o h.active \o h.tick \o h.returned \o h.candles

\* the place of the object at a among the objects held
Place(h, a) ==
    LET order == Holders(h)
        first == CHOOSE i \in 1..Len(order) :
                     order[i] = a /\ \A j \in 1..(i - 1) : order[j] # a
    IN  Cardinality({order[j] : j \in 1..first})

Moved(h, q) == [i \in 1..Len(q) |-> Place(h, q[i])]

\* the objects nobody holds are gone; an address is only a name, and the
\* objects held are named by their place
Collect(h) ==
    [h EXCEPT
       !.objects = [n \in Addresses |->
                      IF \E a \in Referenced(h) : Place(h, a) = n
                      THEN h.objects[CHOOSE a \in Referenced(h) : Place(h, a) = n]
                      ELSE NoTick],
       !.closed = Moved(h, @), !.active = Moved(h, @), !.tick = Moved(h, @),
       !.returned = Moved(h, @), !.candles = Moved(h, @)]

SameObject(h, a) == a

\* the object clone() answers for the object at a: a new one
CloneObject(h, a) == Alloc(h)

\* _finalize_active on the objects
HeapFinalizeActive(h) ==
    IF h.active = <<>> THEN h
    ELSE [h EXCEPT
            !.objects[h.active[1]].is_closed = TRUE,
            !.last_closed_ts = <<h.objects[h.active[1]].timestamp>>,
            !.closed = DequeAppend(h.closed, h.maxlen, h.active[1]),
            !.active = <<>>]

\* the merge-or-replace statement of update for the candle object at a
HeapMergeOrReplace(h, a) ==
    LET candle == h.objects[a]
        finalized == HeapFinalizeActive(h)
        new == CloneObject(finalized, a)
    IN  IF /\ h.active # <<>>
           /\ candle.timestamp = h.objects[h.active[1]].timestamp
        THEN [h EXCEPT !.objects[h.active[1]] = Merge(@, candle)]
        ELSE [finalized EXCEPT !.objects[new] = Clone(candle),
                               !.active = <<new>>]

\* update(candle) for the candle object at a
HeapUpdate(h, a) ==
    LET candle == h.objects[a]
        h1 == HeapMergeOrReplace(h, a)
    IN  IF /\ candle.is_closed
           /\ Truthy(h.last_closed_ts)
           /\ candle.timestamp <= h.last_closed_ts[1]
        THEN h
        ELSE IF h1.active # <<>> /\ h1.objects[h1.active[1]].is_closed
             THEN HeapFinalizeActive(h1)
             ELSE h1

\* the list comprehension of get_candles: one clone per object of addrs,
\* gathered in candles
RECURSIVE CloneAll(_, _)
CloneAll(h, addrs) ==
    IF addrs = <<>> THEN h
    ELSE LET new == CloneObject(h, Head(addrs))
         IN  CloneAll([h EXCEPT !.objects[new] = Clone(h.objects[Head(addrs)]),
                                !.candles = Append(@, new)],
                      Tail(addrs))

\* get_candles(include_current), up to its return statement
HeapGetCandles(h, include_current) ==
    CloneAll([h EXCEPT !.candles = <<>>],
             h.closed \o (IF include_current THEN h.active ELSE <<>>))

\* get_price_arrays(include_current): the five lists of numbers, read from
\* the list of get_candles
HeapGetPriceArrays(h, include_current) ==
    LET got == HeapGetCandles(h, include_current)
        candles == [i \in 1..Len(got.candles) |-> got.objects[got.candles[i]]]
    IN  [opens |-> [i \in 1..Len(candles) |-> candles[i].open],
         highs |-> [i \in 1..Len(candles) |-> candles[i].high],
         lows |-> [i \in 1..Len(candles) |-> candles[i].low],
         closes |-> [i \in 1..Len(candles) |-> candles[i].close],
         volumes |-> [i \in 1..Len(candles) |-> candles[i].volume]]

\* what a caller can do to a candle object it holds
Mutations == {"close", "is_closed"}

Mutated(candle, m) ==
    IF m = "close" THEN [candle EXCEPT !.close = 0]
    ELSE [candle EXCEPT !.is_closed = TRUE]

\* ------------------------------------------------------------------------
\* LiveDashboardSystem: signal de-duplication and verification
\* ------------------------------------------------------------------------

\* capacity of the dashboard's rings (max_closed=200), scaled down
DashMaxClosed == 1

\* update_analysis returns early with fewer closes than this (60, scaled
\* down with the ring)
MinCloses == 1

\* cap of pending_verifications (50, scaled down)
PendingCap == 1

\* cap of completed_verifications (100, scaled down)
CompletedCap == 1

\* cap of signal_history (100, scaled down)
HistoryCap == 1

\* the two verification horizons (10 and 30 minutes), in steps of the clock
Verify10 == 1

Verify30 == 2

\* the clock runs over 0..MaxNow
MaxNow == 2

\* the frames of the dashboard carry open_time values up to MaxFrameTs
MaxFrameTs == 1

\* at most MaxSignals signals are recorded while the clock stands still
MaxSignals == 2

\* at most MaxTimedSignals signals are recorded while the clock runs
MaxTimedSignals == 1

Directions == {"BUY", "SELL", "HOLD"}

\* VerificationStats()
NewStats ==
    [total_verified_10min |-> 0, correct_10min |-> 0, wrong_10min |-> 0,
     total_verified_30min |-> 0, correct_30min |-> 0, wrong_30min |-> 0]

\* DashboardState(), the fields the signal bookkeeping reads or writes
NewState ==
    [current_price |-> 0,
     current_signal |-> <<>>,
     signal_history |-> <<>>,
     total_signals |-> 0,
     buy_signals |-> 0,
     sell_signals |-> 0,
     last_signal_direction |-> <<>>,
     last_signal_kline_time |-> <<>>,
     pending_verifications |-> <<>>,
     completed_verifications |-> <<>>,
     verification_stats |-> NewStats]

\* q[-n:] for n > 0
TakeLast(q, n) ==
    IF Len(q) > n THEN SubSeq(q, Len(q) - n + 1, Len(q)) ELSE q

\* get_candles
GetCandles(b, include_current) ==
    LET candles == [i \in 1..Len(b.closed_candles) |-> Clone(b.closed_candles[i])]
    IN  IF include_current /\ b.active_candle # <<>>
        THEN Append(candles, Clone(b.active_candle[1]))
        ELSE candles

\* get_price_arrays(...)["closes"]
Closes(b, include_current) ==
    LET candles == GetCandles(b, include_current)
    IN  [i \in 1..Len(candles) |-> candles[i].close]

\* current_kline_time of update_analysis
CurrentKlineTime(b) ==
    IF b.active_candle # <<>> THEN <<b.active_candle[1].timestamp>>
    ELSE IF b.closed_candles # <<>> THEN <<Last(b.closed_candles).timestamp>>
    ELSE <<>>

\* the signal of SignalGenerator.generate: its direction is an input here,
\* its entry price is closes[-1] (0.0 in the no-signal result)
Signal(direction, closes) ==
    [direction |-> direction,
     entry_price |-> IF direction = "HOLD" THEN 0 ELSE Last(closes)]

\* the de-duplication test of update_analysis
IsNewSignal(st, direction, kline_time) ==
    /\ direction # "HOLD"
    /\ \/ st.last_signal_direction # <<direction>>
       \/ st.last_signal_kline_time # kline_time

\* _add_pending_verification
AddPendingVerification(st, signal, t) ==
    LET verification ==
            [signal_id |-> st.total_signals,
             direction |-> signal.direction,
             entry_price |-> signal.entry_price,
             entry_time |-> t,
             verify_10min_time |-> t + Verify10,
             verify_30min_time |-> t + Verify30,
             verified_10min |-> FALSE,
             verified_30min |-> FALSE,
             result_10min |-> <<>>,
             result_30min |-> <<>>,
             price_at_10min |-> <<>>,
             price_at_30min |-> <<>>,
             profit_10min |-> <<>>,
             profit_30min |-> <<>>]
        appended == Append(st.pending_verifications, verification)
        done == SelectSeq(appended, LAMBDA pv : pv.verified_30min)
    IN  [st EXCEPT !.pending_verifications =
            IF Len(appended) > PendingCap /\ done # <<>>
            THEN SelectSeq(appended, LAMBDA pv : pv # done[1])
            ELSE appended]

\* the statistics and history update of a new signal in update_analysis;
\* the record's signal_id (a uuid in the source) is the signal's serial number
RecordSignal(st, signal) ==
    [st EXCEPT
        !.signal_history = TakeLast(Append(@, signal), HistoryCap),
        !.total_signals = @ + 1,
        !.buy_signals = IF signal.direction = "BUY" THEN @ + 1 ELSE @,
        !.sell_signals = IF signal.direction = "BUY" THEN @ ELSE @ + 1]

UpdateAnalysisForgetsOnlyOnNewCandle(st, b, direction, t) ==
    LET closes == Closes(b, TRUE)
        kline_time == CurrentKlineTime(b)
        signal == Signal(direction, closes)
        is_new == IsNewSignal(st, direction, kline_time)
        st1 == [st EXCEPT !.current_signal = <<signal>>]
        st2 == IF is_new
               THEN [st1 EXCEPT !.last_signal_direction = <<direction>>,
                                !.last_signal_kline_time = kline_time]
               ELSE st1
    IN  IF Len(closes) < MinCloses THEN st
        ELSE IF is_new
             THEN AddPendingVerification(RecordSignal(st2, signal), signal, t)
             ELSE st2

UpdateAnalysisRecordsEverySignal(st, b, direction, t) ==
    LET closes == Closes(b, TRUE)
        kline_time == CurrentKlineTime(b)
        signal == Signal(direction, closes)
        is_new == direction # "HOLD"
        st1 == [st EXCEPT !.current_signal = <<signal>>]
        st2 == IF direction # "HOLD"
               THEN [st1 EXCEPT !.last_signal_direction = <<direction>>,
                                !.last_signal_kline_time = kline_time]
               ELSE [st1 EXCEPT !.last_signal_direction = <<>>]
    IN  IF Len(closes) < MinCloses THEN st
        ELSE IF is_new
             THEN AddPendingVerification(RecordSignal(st2, signal), signal, t)
             ELSE st2

\* update_analysis, from the signal on
UpdateAnalysis(st, b, direction, t) ==
    LET closes == Closes(b, TRUE)
        kline_time == CurrentKlineTime(b)
        signal == Signal(direction, closes)
        is_new == IsNewSignal(st, direction, kline_time)
        st1 == [st EXCEPT !.current_signal = <<signal>>]
        st2 == IF direction # "HOLD"
               THEN IF is_new
                    THEN [st1 EXCEPT !.last_signal_direction = <<direction>>,
                                     !.last_signal_kline_time = kline_time]
                    ELSE st1
               ELSE [st1 EXCEPT !.last_signal_direction = <<>>]
    IN  IF Len(closes) < MinCloses THEN st
        ELSE IF is_new
             THEN AddPendingVerification(RecordSignal(st2, signal), signal, t)
             ELSE st2

\* the actual move check_pending_signals of the resonance system records
ActualResult(current_price, entry_price) ==
    IF current_price > entry_price THEN "HIGHER"
    ELSE IF current_price < entry_price THEN "LOWER"
    ELSE "EQUAL"

\* the move the resonance system predicts with a signal
Predicted(signal_type) == IF signal_type = "BUY" THEN "HIGHER" ELSE "LOWER"

\* is_correct of check_pending_signals
IsCorrect(predicted, current_price, entry_price) ==
    predicted = ActualResult(current_price, entry_price)

ResultCountsEqualCorrect(direction, current_price, entry_price) ==
    IF direction = "BUY"
    THEN IF current_price >= entry_price THEN "correct" ELSE "wrong"
    ELSE IF current_price <= entry_price THEN "correct" ELSE "wrong"

\* "correct" or "wrong" of _verify_signals
Result(direction, current_price, entry_price) ==
    IF direction = "BUY"
    THEN IF current_price > entry_price THEN "correct" ELSE "wrong"
    ELSE IF current_price < entry_price THEN "correct" ELSE "wrong"

\* the profit percentage of _verify_signals, as the pair <<numerator,
\* denominator>> of the quotient the source computes
Profit(direction, current_price, entry_price) ==
    IF direction = "BUY"
    THEN <<(current_price - entry_price) * 100, entry_price>>
    ELSE <<(entry_price - current_price) * 100, entry_price>>

Check10Again(pv, t, current_price) ==
    IF t >= pv.verify_10min_time
    THEN [pv EXCEPT
            !.verified_10min = TRUE,
            !.price_at_10min = <<current_price>>,
            !.profit_10min = <<Profit(pv.direction, current_price, pv.entry_price)>>,
            !.result_10min = <<Result(pv.direction, current_price, pv.entry_price)>>]
    ELSE pv

\* the 10-minute block of the loop body of _verify_signals on one record
Check10(pv, t, current_price) ==
    IF ~pv.verified_10min /\ t >= pv.verify_10min_time
    THEN [pv EXCEPT
            !.verified_10min = TRUE,
            !.price_at_10min = <<current_price>>,
            !.profit_10min = <<Profit(pv.direction, current_price, pv.entry_price)>>,
            !.result_10min = <<Result(pv.direction, current_price, pv.entry_price)>>]
    ELSE pv

\* the 30-minute block of the loop body of _verify_signals on one record
Check30(pv, t, current_price) ==
    IF ~pv.verified_30min /\ t >= pv.verify_30min_time
    THEN [pv EXCEPT
            !.verified_30min = TRUE,
            !.price_at_30min = <<current_price>>,
            !.profit_30min = <<Profit(pv.direction, current_price, pv.entry_price)>>,
            !.result_30min = <<Result(pv.direction, current_price, pv.entry_price)>>]
    ELSE pv

Count10IgnoresWrong(stats, result) ==
    [stats EXCEPT
        !.total_verified_10min = @ + 1,
        !.correct_10min = IF result = "correct" THEN @ + 1 ELSE @]

\* the statistics update of the 10-minute block
Count10(stats, result) ==
    [stats EXCEPT
        !.total_verified_10min = @ + 1,
        !.correct_10min = IF result = "correct" THEN @ + 1 ELSE @,
        !.wrong_10min = IF result = "correct" THEN @ ELSE @ + 1]

\* the statistics update of the 30-minute block
Count30(stats, result) ==
    [stats EXCEPT
        !.total_verified_30min = @ + 1,
        !.correct_30min = IF result = "correct" THEN @ + 1 ELSE @,
        !.wrong_30min = IF result = "correct" THEN @ ELSE @ + 1]

\* the statistics after the loop of _verify_signals has visited records
\* i..Len(before), where after[i] is before[i] as the loop leaves it
RECURSIVE CountFrom(_, _, _, _)
CountFrom(stats, before, after, i) ==
    IF i > Len(before) THEN stats
    ELSE LET s10 == IF after[i].verified_10min /\ ~before[i].verified_10min
                    THEN Count10(stats, after[i].result_10min[1])
                    ELSE stats
             s30 == IF after[i].verified_30min /\ ~before[i].verified_30min
                    THEN Count30(s10, after[i].result_30min[1])
                    ELSE s10
         IN  CountFrom(s30, before, after, i + 1)

VerifySignalsMovesAfterFirstHorizon(st, t) ==
    IF st.current_price <= 0 THEN st
    ELSE LET before == st.pending_verifications
             after == [i \in 1..Len(before) |->
                          Check30(Check10(before[i], t, st.current_price),
                                  t, st.current_price)]
             to_remove == SelectSeq(after, LAMBDA pv : pv.verified_10min)
             kept == SelectSeq(after, LAMBDA pv : ~pv.verified_10min)
         IN  [st EXCEPT
                !.pending_verifications = kept,
                !.completed_verifications =
                    IF to_remove = <<>> THEN @
                    ELSE TakeLast(@ \o to_remove, CompletedCap),
                !.verification_stats = CountFrom(@, before, after, 1)]

\* _verify_signals
VerifySignals(st, t) ==
    IF st.current_price <= 0 THEN st
    ELSE LET before == st.pending_verifications
             after == [i \in 1..Len(before) |->
                          Check30(Check10(before[i], t, st.current_price),
                                  t, st.current_price)]
             to_remove == SelectSeq(after,
                              LAMBDA pv : pv.verified_10min /\ pv.verified_30min)
             kept == SelectSeq(after,
                         LAMBDA pv : ~(pv.verified_10min /\ pv.verified_30min))
         IN  [st EXCEPT
                !.pending_verifications = kept,
                !.completed_verifications =
                    IF to_remove = <<>> THEN @
                    ELSE TakeLast(@ \o to_remove, CompletedCap),
                !.verification_stats = CountFrom(@, before, after, 1)]

\* process_kline for a frame of the primary interval: the buffer update,
\* the price update and update_analysis
ProcessKline(st, b, payload, direction, t) ==
    UpdateAnalysis([st EXCEPT !.current_price = payload.c],
                   UpdateFromWs(b, payload), direction, t)

\* the "k" payload of a frame that carries the tick k
Payload(k) ==
    [t |-> k.timestamp, o |-> k.open, h |-> k.high, l |-> k.low,
     c |-> k.close, v |-> k.volume, x |-> k.is_closed]

\* frames for the de-duplication: the candles 0..MaxFrameTs, open or closed,
\* at one price
SignalFrames ==
    { Payload(k) : k \in {c \in Ticks : c.timestamp <= MaxFrameTs /\ c.close = 3} }

\* frames for the verification: one candle, open or closed, at two prices
TimedFrames ==
    { Payload(k) : k \in {c \in Ticks : c.timestamp = MaxFrameTs} }

\* a call of update_analysis has added a record to pending_verifications
Created(before, after) ==
    /\ after.pending_verifications # <<>>
    /\ \A i \in 1..Len(before.pending_verifications) :
          before.pending_verifications[i] # Last(after.pending_verifications)

\* the history of the update_analysis invocations that produced a signal:
\* the candle open-time of the latest one, whether the one before it was a
\* HOLD, whether the latest one created a record, the records created in the
\* trailing streak of invocations with one non-HOLD direction and one candle
\* open-time, and the records created per direction since the candle
\* open-time last changed
NoCalls ==
    [n |-> 0, kline_time |-> <<>>, after_hold |-> FALSE, is_new |-> FALSE,
     streak_n |-> 0, streak_created |-> 0,
     made |-> [d \in {"BUY", "SELL"} |-> 0],
     rerecorded |-> FALSE]

NextCalls(c, st, direction, kline_time, is_new) ==
    LET prev == IF st.current_signal = <<>> THEN "NONE"
                ELSE st.current_signal[1].direction
        same_candle == c.n > 0 /\ c.kline_time = kline_time
        same_streak == same_candle /\ prev = direction /\ direction # "HOLD"
        made0 == IF same_candle THEN c.made ELSE NoCalls.made
    IN  [n |-> 1,
         kline_time |-> kline_time,
         after_hold |-> prev = "HOLD",
         is_new |-> is_new,
         streak_n |-> IF same_streak THEN 2 ELSE 1,
         streak_created |-> (IF same_streak THEN c.streak_created ELSE 0)
                            + (IF is_new THEN 1 ELSE 0),
         made |-> IF is_new THEN [made0 EXCEPT ![direction] = @ + 1] ELSE made0,
         rerecorded |-> /\ is_new
                        /\ prev = "HOLD"
                        /\ st.signal_history # <<>>
                        /\ Last(st.signal_history).direction = direction
                        /\ st.last_signal_kline_time = kline_time]

\* ------------------------------------------------------------------------
\* The reconnect loops: connect_websocket of LiveDashboardSystem and of
\* LiveTradingSystemV2, run of BinanceResonanceLiveTradingSystem
\* ------------------------------------------------------------------------

\* MAX_RETRIES of config.py (10), scaled down
MAX_RETRIES == 3

Loops ==
    {"LiveDashboardSystem", "LiveTradingSystemV2",
     "BinanceResonanceLiveTradingSystem"}

\* the systems whose loop reads the is_running flag
Stoppable == {"LiveDashboardSystem", "LiveTradingSystemV2"}

\* a loop before its system runs: pc is the position of the loop ("idle",
\* "loop" at the test of the while, "connected" inside the async with,
\* "sleeping" in the asyncio.sleep of the except branch, "done" after the
\* while); delay is the argument of the last asyncio.sleep, in seconds;
\* failures counts the failures and attempts the unsuccessful connection
\* attempts since the last successful connection
NewLoop ==
    [pc |-> "idle", retry_count |-> 0, is_running |-> FALSE, delay |-> 0,
     failures |-> 0, attempts |-> 0]

SleepDoubles(l, retry_count) ==
    IF l \in Stoppable THEN 5 * 2 ^ (retry_count - 1) ELSE 5

\* the argument of asyncio.sleep in the except branch
Sleep(l, retry_count) ==
    IF l \in Stoppable THEN 5 * retry_count ELSE 5

CanRetryOnceMore(l) ==
    /\ l \in Stoppable => loops[l].is_running
    /\ loops[l].retry_count <= MAX_RETRIES

\* the condition of the outer while
CanRetry(l) ==
    /\ l \in Stoppable => loops[l].is_running
    /\ loops[l].retry_count < MAX_RETRIES

\* the other variables of the model are left alone by the loops
OnlyLoops ==
    UNCHANGED <<closed_candles, active_candle, last_closed_ts, maxlen, raised,
                last, run, state, now, calls, call, kernelvars, v2vars, heapvars, analyzervars>>

\* run / start: is_running is set and the loop is entered with retry_count 0
Run(l) ==
    /\ loops[l].pc = "idle"
    /\ loops' = [loops EXCEPT ![l].pc = "loop", ![l].is_running = TRUE,
                               ![l].retry_count = 0]
    /\ OnlyLoops

\* stop
Stop(l) ==
    /\ l \in Stoppable
    /\ loops[l].is_running
    /\ loops' = [loops EXCEPT ![l].is_running = FALSE]
    /\ OnlyLoops

\* websockets.connect succeeds: retry_count = 0
Connect(l) ==
    /\ loops[l].pc = "loop"
    /\ CanRetry(l)
    /\ loops' = [loops EXCEPT ![l].pc = "connected", ![l].retry_count = 0,
                               ![l].failures = 0, ![l].attempts = 0]
    /\ OnlyLoops

\* the except branch: retry_count += 1, then asyncio.sleep
Except(l, attempted) ==
    loops' = [loops EXCEPT
                 ![l].pc = "sleeping",
                 ![l].retry_count = @ + 1,
                 ![l].delay = Sleep(l, loops[l].retry_count + 1),
                 ![l].failures = @ + 1,
                 ![l].attempts = IF attempted THEN @ + 1 ELSE @]

\* websockets.connect raises
ConnectFails(l) ==
    /\ loops[l].pc = "loop"
    /\ CanRetry(l)
    /\ Except(l, TRUE)
    /\ OnlyLoops

\* an exception other than TimeoutError and ConnectionClosed escapes the
\* inner loop (the resonance loop catches every Exception inside)
SessionFails(l) ==
    /\ l \in Stoppable
    /\ loops[l].pc = "connected"
    /\ Except(l, FALSE)
    /\ OnlyLoops

\* the inner loop ends (ConnectionClosed, or is_running is false) and the
\* async with is left
SessionEnds(l) ==
    /\ loops[l].pc = "connected"
    /\ loops' = [loops EXCEPT ![l].pc = "loop"]
    /\ OnlyLoops

\* asyncio.sleep returns
Wake(l) ==
    /\ loops[l].pc = "sleeping"
    /\ loops' = [loops EXCEPT ![l].pc = "loop"]
    /\ OnlyLoops

\* the condition of the outer while is false
GiveUp(l) ==
    /\ loops[l].pc = "loop"
    /\ ~CanRetry(l)
    /\ loops' = [loops EXCEPT ![l].pc = "done"]
    /\ OnlyLoops

NextLoops ==
    \E l \in Loops :
        \/ Run(l)
        \/ Stop(l)
        \/ Connect(l)
        \/ ConnectFails(l)
        \/ SessionFails(l)
        \/ SessionEnds(l)
        \/ Wake(l)
        \/ GiveUp(l)

\* ------------------------------------------------------------------------
\* The strategy layer: what the indicator classes hand to their callers
\* ------------------------------------------------------------------------

\* no call yet
NoCall == [op |-> "none"]

\* RSIIndicator(period=14).calculate(prices)['rsi'] for len(prices) = n: the
\* call raises ValueError, or the entry is the list of all RSI values
RSICalculate(n) == IF n < 14 + 1 THEN "ValueError" ELSE "list"

\* MACDIndicator(12, 26, 9).calculate(prices)['histogram']: the call raises
\* ValueError, or the entry is the list of all histogram values
MACDCalculate(n) == IF n < 26 THEN "ValueError" ELSE "list"

\* BollingerBandsIndicator(20).calculate(prices)['percent_b']: a list
BBCalculate(n) == IF n < 20 THEN "ValueError" ELSE "list"

\* EMAIndicator(period).calculate(prices)['ema']: None or the latest value
EMACalculate(n, period) == IF n < period THEN "None" ELSE "float"

\* reading the entry raises (the calculate call raised)
ReadRaises(value) == value = "ValueError"

\* an ordering comparison of the entry with a number raises TypeError
CompareRaises(value) == value = "list"

\* sum of f[x] over the finite set S
RECURSIVE Sum(_, _)
Sum(f, S) ==
    IF S = {} THEN 0
    ELSE LET x == CHOOSE y \in S : TRUE
         IN  f[x] + Sum(f, S \ {x})

\* a / b = c / d for fractions <<numerator, denominator>>
RatEq(p, q) == p[1] * q[2] = q[1] * p[2]

\* a / b >= c / d, denominators positive
RatGeq(p, q) == p[1] * q[2] >= q[1] * p[2]

\* ------------------------------------------------------------------------
\* The indicator kernels: the series of calculate, the values of RSI
\* ------------------------------------------------------------------------

\* KDJIndicator.__init__(period=9)
KDJPeriod == 9

\* ATRIndicator.__init__(period=14)
ATRPeriod == 14

\* ADXIndicator.__init__(period=14)
ADXPeriod == 14

\* VolumeIndicator.__init__(ma_period=20)
VolumeMAPeriod == 20

\* EMAIndicator(period=20), the period the strategies ask for
EMAPeriod == 20

\* a list of n entries of which the first none are None
Series(n, none) == [i \in 1..n |-> IF i <= none THEN "None" ELSE "value"]

\* KDJIndicator.calculate(...)['k_series'] on n bars: one K per RSV, and one
\* RSV per window of period bars
KDJSeries(n) ==
    IF n < KDJPeriod THEN <<>> ELSE Series(n - (KDJPeriod - 1), 0)

\* ATRIndicator.calculate(...)['atr_series'] on n bars: the seed and one
\* value per later true range
ATRSeries(n) ==
    IF n < ATRPeriod + 1 THEN <<>> ELSE Series(1 + (n - (ATRPeriod + 1)), 0)

\* RSIIndicator(14).calculate(prices) raises ValueError on n prices
RSIRaises(n) == n < 14 + 1

\* RSIIndicator(14).calculate(prices)['rsi'] on n prices: one value per
\* average, the seed included
RSISeries(n) ==
    IF RSIRaises(n) THEN "ValueError" ELSE Series(1 + ((n - 1) - 14), 0)

\* EMAIndicator(period).calculate(prices)['ema_series']: the running mean
\* fills the positions before the seed
EMASeries(n, period) ==
    IF n = 0 \/ n < period THEN <<>> ELSE Series(n, 0)

\* ADXIndicator.calculate(...)['adx_series'] on n bars with positive true
\* ranges: the smoothed DX, shifted by the one bar the differences lose
ADXSeries(n) ==
    IF n < 2 THEN <<>>
    ELSE LET values == n - 1
             valid_dx_start == ADXPeriod - 1
             valid_dx == IF values < ADXPeriod THEN 0
                         ELSE values - valid_dx_start
             none == IF valid_dx >= ADXPeriod
                     THEN 1 + valid_dx_start + ADXPeriod - 1
                     ELSE n
         IN  Series(n, none)

\* VolumeIndicator.calculate(volumes)['volume_ma_series']
VolumeMASeries(n) ==
    IF n = 0 THEN <<>>
    ELSE Series(n, IF n < VolumeMAPeriod THEN n ELSE VolumeMAPeriod - 1)

Kernels == {"KDJ", "ATR", "RSI", "EMA", "ADX", "VolumeMA"}

\* calculate of the kernel raises on n bars
KernelRaises(kernel, n) == kernel = "RSI" /\ RSIRaises(n)

\* the series of the kernel on n bars
KernelSeries(kernel, n) ==
    CASE kernel = "KDJ" -> KDJSeries(n)
      [] kernel = "ATR" -> ATRSeries(n)
      [] kernel = "RSI" -> RSISeries(n)
      [] kernel = "EMA" -> EMASeries(n, EMAPeriod)
      [] kernel = "ADX" -> ADXSeries(n)
      [] kernel = "VolumeMA" -> VolumeMASeries(n)

\* RSIIndicator.__init__(period, use_ema=True); averages are fractions
\* <<numerator, denominator>>
NewRSI ==
    [price_history |-> <<>>, gains |-> <<>>, losses |-> <<>>,
     avg_gain |-> <<>>, avg_loss |-> <<>>, rsi |-> <<>>,
     previous_price |-> <<>>]

\* the gain of one price change
Gain(change) == IF change > 0 THEN change ELSE 0

\* the loss of one price change
Loss(change) == IF change > 0 THEN 0 ELSE 0 - change

\* _calculate_price_changes(prices), as the pair of lists
CalculatePriceChanges(prices) ==
    IF Len(prices) < 2 THEN [gains |-> <<>>, losses |-> <<>>]
    ELSE [gains |-> [i \in 1..(Len(prices) - 1) |->
                         Gain(prices[i + 1] - prices[i])],
          losses |-> [i \in 1..(Len(prices) - 1) |->
                         Loss(prices[i + 1] - prices[i])]]

\* sum(values[:period]) / period
InitialAverage(values, period) ==
    <<Sum(values, 1..period), period>>

\* alpha * value + (1 - alpha) * avg with alpha = 1 / period
EmaAverage(value, avg, period) ==
    <<value * avg[2] + (period - 1) * avg[1], period * avg[2]>>

\* the RSI of a pair of averages, in percent
RSIValue(avg_gain, avg_loss) ==
    IF avg_loss[1] = 0 THEN <<100, 1>>
    ELSE <<100 * avg_gain[1] * avg_loss[2],
           avg_gain[1] * avg_loss[2] + avg_loss[1] * avg_gain[2]>>

\* entry k of the averages calculate builds from values
RECURSIVE Averages(_, _, _)
Averages(values, period, k) ==
    IF k = 1 THEN InitialAverage(values, period)
    ELSE EmaAverage(values[period + k - 1],
                    Averages(values, period, k - 1), period)

\* RSIIndicator(period).calculate(prices): the three lists, entry by entry
RSICalculateOn(prices, period) ==
    IF Len(prices) < period + 1 THEN "ValueError"
    ELSE LET changes == CalculatePriceChanges(prices)
         IN  [k \in 1..(Len(changes.gains) - period + 1) |->
                LET avg_gain == Averages(changes.gains, period, k)
                    avg_loss == Averages(changes.losses, period, k)
                IN  [rsi |-> RSIValue(avg_gain, avg_loss),
                     avg_gain |-> avg_gain, avg_loss |-> avg_loss]]

\* the early return of update once the price is in the history
RSIUpdateShort(self, new_price) ==
    [self EXCEPT !.price_history = Append(@, new_price)]

\* RSIIndicator.update(new_price) past the first length test: the object
\* after the call
RSIUpdateLong(self, new_price, period) ==
    LET change == new_price - self.previous_price[1]
        recorded ==
            IF self.previous_price # <<>>
            THEN [self EXCEPT !.price_history = Append(@, new_price),
                              !.gains = Append(@, Gain(change)),
                              !.losses = Append(@, Loss(change)),
                              !.previous_price = <<new_price>>]
            ELSE [self EXCEPT !.price_history = Append(@, new_price),
                              !.previous_price = <<new_price>>]
        avg_gain ==
            IF recorded.avg_gain = <<>>
            THEN InitialAverage(recorded.gains, period)
            ELSE EmaAverage(Last(recorded.gains), recorded.avg_gain[1], period)
        avg_loss ==
            IF recorded.avg_gain = <<>>
            THEN InitialAverage(recorded.losses, period)
            ELSE EmaAverage(Last(recorded.losses), recorded.avg_loss[1],
                            period)
    IN  IF Len(recorded.gains) < period THEN recorded
        ELSE [recorded EXCEPT !.avg_gain = <<avg_gain>>,
                              !.avg_loss = <<avg_loss>>,
                              !.rsi = <<RSIValue(avg_gain, avg_loss)>>]

\* RSIIndicator.update(new_price): the object after the call
RSIUpdate(self, new_price, period) ==
    IF Len(self.price_history) + 1 < period + 1
    THEN RSIUpdateShort(self, new_price)
    ELSE RSIUpdateLong(self, new_price, period)

\* what update returns: None while it returns early, then the kept value
RSIUpdateResult(self, new_price, period) ==
    LET after == RSIUpdate(self, new_price, period)
    IN  IF Len(after.price_history) < period + 1 \/ Len(after.gains) < period
        THEN <<>>
        ELSE after.rsi

\* ------------------------------------------------------------------------
\* MultiTimeframeConfirmer; scores and strengths are in hundredths
\* ------------------------------------------------------------------------

\* confirmation_timeframes of the configuration
ConfirmationTimeframes == {"15m", "1h"}

\* weights.get(tf, 0.25), in twentieths
Weight(tf) ==
    CASE tf = "5m" -> 8
      [] tf = "15m" -> 7
      [] OTHER -> 5

\* min_confirmations of the configuration
MinConfirmations == 1

\* confirm answers NEUTRAL for a timeframe with fewer closes than this
ConfirmMinCloses == 30

\* confirmation_rules of strategy_config.py after the defaults of
\* rules.get(...) in _check_timeframe_confirmation
DefaultRules ==
    [tf \in ConfirmationTimeframes |->
        [check_trend |-> TRUE, check_rsi_extreme |-> TRUE, check_macd |-> TRUE,
         check_volume_trend |-> tf = "1h"]]

\* _check_timeframe_confirmation for the data of one timeframe: n closes,
\* how price, EMA20 and EMA60 lie for the signal's direction ("aligned",
\* "partial", "against") and how the recent volume compares with the
\* older one ("up", "down", "flat", or "empty" without volumes)
CheckTimeframeConfirmation(data, rules) ==
    LET ema20 == EMACalculate(data.n, 20)
        ema60 == EMACalculate(data.n, 60)
        trend_seen == rules.check_trend /\ ema20 # "None" /\ ema60 # "None"
        trend_passed == trend_seen /\ data.trend = "aligned"
        trend_score == IF ~trend_seen THEN 0
                       ELSE CASE data.trend = "aligned" -> 15
                              [] data.trend = "partial" -> 5
                              [] OTHER -> 0 - 10
        rsi == RSICalculate(data.n)
        histogram == MACDCalculate(data.n)
        volume_on == rules.check_volume_trend /\ data.volume # "empty"
        volume_passed == volume_on /\ data.volume = "up"
        score == 50 + trend_score + (IF volume_passed THEN 5 ELSE 0)
        checks_total == (IF rules.check_trend THEN 1 ELSE 0)
                        + (IF rules.check_rsi_extreme THEN 1 ELSE 0)
                        + (IF rules.check_macd THEN 1 ELSE 0)
                        + (IF volume_on THEN 1 ELSE 0)
        checks_passed == (IF trend_passed THEN 1 ELSE 0)
                         + (IF volume_passed THEN 1 ELSE 0)
        \* pass_rate = checks_passed / checks_total, 0.5 without checks
        rate_geq_half == IF checks_total > 0
                         THEN 2 * checks_passed >= checks_total ELSE TRUE
        rate_lt_3_tenths == IF checks_total > 0
                            THEN 10 * checks_passed < 3 * checks_total ELSE FALSE
    IN  IF rules.check_rsi_extreme /\ ReadRaises(rsi)
        THEN [raised |-> TRUE, error |-> "ValueError"]
        ELSE IF rules.check_rsi_extreme /\ CompareRaises(rsi)
        THEN [raised |-> TRUE, error |-> "TypeError"]
        ELSE IF rules.check_macd /\ ReadRaises(histogram)
        THEN [raised |-> TRUE, error |-> "ValueError"]
        ELSE IF rules.check_macd /\ CompareRaises(histogram)
        THEN [raised |-> TRUE, error |-> "TypeError"]
        ELSE [raised |-> FALSE,
              result |-> IF score >= 65 /\ rate_geq_half THEN "CONFIRMED"
                         ELSE IF score < 40 \/ rate_lt_3_tenths THEN "REJECTED"
                         ELSE "NEUTRAL",
              score |-> Min(Max(score, 0), 100)]

\* _calculate_final_score, as the fraction <<numerator, denominator>>
CalculateFinalScore(primary_strength, timeframe_results) ==
    LET tfs == DOMAIN timeframe_results
        scores == [tf \in tfs |-> timeframe_results[tf].score * Weight(tf)]
        weights == [tf \in tfs |-> Weight(tf)]
    IN  <<primary_strength * Weight("5m") + Sum(scores, tfs),
          100 * (Weight("5m") + Sum(weights, tfs))>>

RejectionsScaleByCount(is_confirmed, final_score, rejection_count) ==
    IF rejection_count > 0
    THEN [is_confirmed |-> is_confirmed,
          final_score |-> <<(10 - 2 * rejection_count) * final_score[1],
                            10 * final_score[2]>>]
    ELSE [is_confirmed |-> is_confirmed, final_score |-> final_score]

\* the rejection step of confirm
ApplyRejections(is_confirmed, final_score, rejection_count) ==
    IF rejection_count > 0
    THEN IF rejection_count >= Cardinality(ConfirmationTimeframes)
         THEN [is_confirmed |-> FALSE,
               final_score |-> <<3 * final_score[1], 10 * final_score[2]>>]
         ELSE [is_confirmed |-> is_confirmed,
               final_score |-> <<(10 - 2 * rejection_count) * final_score[1],
                                 10 * final_score[2]>>]
    ELSE [is_confirmed |-> is_confirmed, final_score |-> final_score]

\* confirm; timeframe_data maps a timeframe to its data, <<>> when absent
Confirm(signal_direction, primary_strength, timeframe_data, rules) ==
    LET given == {tf \in ConfirmationTimeframes : timeframe_data[tf] # <<>>}
        checked == {tf \in given : timeframe_data[tf][1].n >= ConfirmMinCloses}
        checks == [tf \in checked |->
                      CheckTimeframeConfirmation(timeframe_data[tf][1], rules[tf])]
        timeframe_results ==
            [tf \in given |->
                IF tf \in checked THEN checks[tf]
                ELSE [raised |-> FALSE, result |-> "NEUTRAL", score |-> 50]]
        confirmation_count ==
            Cardinality({tf \in checked : checks[tf].result = "CONFIRMED"})
        rejection_count ==
            Cardinality({tf \in checked : checks[tf].result = "REJECTED"})
        final == ApplyRejections(confirmation_count >= MinConfirmations,
                                 CalculateFinalScore(primary_strength,
                                                     timeframe_results),
                                 rejection_count)
    IN  IF signal_direction = "HOLD"
        THEN [raised |-> FALSE, is_confirmed |-> FALSE, final_score |-> <<0, 1>>,
              confirmation_count |-> 0, rejection_count |-> 0,
              timeframe_results |-> <<>>, adjusted_strength |-> <<0, 1>>]
        ELSE IF \E tf \in checked : checks[tf].raised
        THEN [raised |-> TRUE,
              error |-> (CHOOSE e \in {"TypeError", "ValueError"} :
                            \E tf \in checked :
                                checks[tf].raised /\ checks[tf].error = e)]
        ELSE [raised |-> FALSE,
              is_confirmed |-> final.is_confirmed,
              final_score |-> final.final_score,
              confirmation_count |-> confirmation_count,
              rejection_count |-> rejection_count,
              timeframe_results |-> timeframe_results,
              adjusted_strength |-> <<primary_strength * final.final_score[1],
                                      100 * final.final_score[2]>>]

\* ------------------------------------------------------------------------
\* The strategies; strengths are in hundredths
\* ------------------------------------------------------------------------

\* fewest closes RangingStrategy.analyze works on
RangingMinCloses == 30

\* fewest closes TrendingStrategy.analyze works on
TrendingMinCloses == 60

\* lookback_period of BreakoutStrategy
LookbackPeriod == 20

\* BaseStrategy._no_signal
StrategyNoSignal(reason) ==
    [raised |-> FALSE, direction |-> "HOLD", strength |-> 0, reason |-> reason]

\* BaseStrategy._create_signal
CreateSignal(direction, strength) ==
    [raised |-> FALSE, direction |-> direction, strength |-> strength,
     reason |-> "conditions met"]

Raise(error) == [raised |-> TRUE, error |-> error]

\* what _check_buy_conditions and _check_sell_conditions count on scalar
\* indicator values: none of the conditions met
NoConditions ==
    [buy_signals |-> 0, buy_strength |-> 0, sell_signals |-> 0,
     sell_strength |-> 0]

\* RangingStrategy.analyze on n closes; indicators is <<>> or carries what
\* the two condition checks count on the precomputed scalar values
RangingAnalyze(n, indicators) ==
    LET percent_b == BBCalculate(n)
        c == IF indicators # <<>> THEN indicators[1] ELSE NoConditions
    IN  IF n < RangingMinCloses THEN StrategyNoSignal("insufficient data")
        ELSE IF indicators = <<>> /\ CompareRaises(percent_b)
        THEN Raise("TypeError")
        ELSE IF c.buy_signals >= 2 /\ c.buy_strength > c.sell_strength
        THEN CreateSignal("BUY", c.buy_strength)
        ELSE IF c.sell_signals >= 2 /\ c.sell_strength > c.buy_strength
        THEN CreateSignal("SELL", c.sell_strength)
        ELSE StrategyNoSignal("ranging conditions not met")

\* RangingStrategy._check_buy_conditions on scalar readings x: where
\* percent_b, rsi, j and k lie against the strategy's thresholds, the
\* K/D cross of the last two bars, and whether volume is low
RangingCheckBuyConditions(x) ==
    LET bb == CASE x.percent_b = "below_0" -> <<1, 35>>
                [] x.percent_b = "low" -> <<1, 25>>
                [] OTHER -> <<0, 0>>
        rsi == CASE x.rsi = "lt_20" -> <<1, 30>>
                 [] x.rsi = "oversold" -> <<1, 20>>
                 [] OTHER -> <<0, 0>>
        kdj == IF x.j = "low" THEN <<1, 25>>
               ELSE IF x.k = "low" THEN <<1, 15>>
               ELSE <<0, 0>>
        cross == IF x.cross = "golden" THEN <<1, 20>> ELSE <<0, 0>>
        volume == IF x.volume_low THEN 10 ELSE 0
    IN  [signals |-> bb[1] + rsi[1] + kdj[1] + cross[1],
         strength |-> Min(bb[2] + rsi[2] + kdj[2] + cross[2] + volume, 100)]

\* RangingStrategy._check_sell_conditions
RangingCheckSellConditions(x) ==
    LET bb == CASE x.percent_b = "above_1" -> <<1, 35>>
                [] x.percent_b = "high" -> <<1, 25>>
                [] OTHER -> <<0, 0>>
        rsi == CASE x.rsi = "gt_80" -> <<1, 30>>
                 [] x.rsi = "overbought" -> <<1, 20>>
                 [] OTHER -> <<0, 0>>
        kdj == IF x.j = "high" THEN <<1, 25>>
               ELSE IF x.k = "high" THEN <<1, 15>>
               ELSE <<0, 0>>
        cross == IF x.cross = "dead" THEN <<1, 20>> ELSE <<0, 0>>
        volume == IF x.volume_low THEN 10 ELSE 0
    IN  [signals |-> bb[1] + rsi[1] + kdj[1] + cross[1],
         strength |-> Min(bb[2] + rsi[2] + kdj[2] + cross[2] + volume, 100)]

\* both checks, as analyze runs them
RangingConditions(x) ==
    [buy_signals |-> RangingCheckBuyConditions(x).signals,
     buy_strength |-> RangingCheckBuyConditions(x).strength,
     sell_signals |-> RangingCheckSellConditions(x).signals,
     sell_strength |-> RangingCheckSellConditions(x).strength]

\* TrendingStrategy.analyze; shape is what _determine_trend finds
TrendingAnalyze(n, shape, indicators) ==
    LET rsi == RSICalculate(n)
        c == IF indicators # <<>> THEN indicators[1] ELSE NoConditions
        signals == IF shape = "up" THEN c.buy_signals ELSE c.sell_signals
        strength == IF shape = "up" THEN c.buy_strength ELSE c.sell_strength
    IN  IF n < TrendingMinCloses THEN StrategyNoSignal("insufficient data")
        ELSE IF shape = "none" THEN StrategyNoSignal("no trend direction")
        ELSE IF indicators = <<>> /\ CompareRaises(rsi)
        THEN Raise("TypeError")
        ELSE IF signals >= 3 /\ strength >= 50
        THEN CreateSignal(IF shape = "up" THEN "BUY" ELSE "SELL", strength)
        ELSE StrategyNoSignal("trending conditions not met")

\* BreakoutStrategy.analyze; shape is what _check_breakout_up and
\* _check_breakout_down find
BreakoutAnalyze(n, shape, indicators) ==
    LET histogram == MACDCalculate(n)
        c == IF indicators # <<>> THEN indicators[1] ELSE NoConditions
    IN  IF n < LookbackPeriod + 10 THEN StrategyNoSignal("insufficient data")
        ELSE IF shape = "none" THEN StrategyNoSignal("no valid breakout")
        ELSE IF indicators = <<>> /\ CompareRaises(histogram)
        THEN Raise("TypeError")
        ELSE IF shape = "up" /\ c.buy_signals >= 2 /\ c.buy_strength >= 50
        THEN CreateSignal("BUY", c.buy_strength)
        ELSE IF shape = "down" /\ c.sell_signals >= 2 /\ c.sell_strength >= 50
        THEN CreateSignal("SELL", c.sell_strength)
        ELSE StrategyNoSignal("no valid breakout")

\* strategy.analyze(highs, lows, closes, volumes, indicators)
StrategyAnalyze(strategy, n, shape, indicators) ==
    CASE strategy = "ranging" -> RangingAnalyze(n, indicators)
      [] strategy = "trending" -> TrendingAnalyze(n, shape, indicators)
      [] OTHER -> BreakoutAnalyze(n, shape, indicators)

\* ------------------------------------------------------------------------
\* MarketStateDetector; confidences are in hundredths
\* ------------------------------------------------------------------------

\* adx_ranging_threshold
RangingThreshold == 20

\* adx_strong_trend_threshold
StrongTrendThreshold == 40

\* trend_direction as ADXAnalyzer.analyze derives it from the two DI values
TrendDirection(plus_di, minus_di) ==
    IF plus_di > minus_di THEN "UP"
    ELSE IF minus_di > plus_di THEN "DOWN"
    ELSE "NONE"

\* the result of ADXAnalyzer.analyze that detect hands on: everything is
\* None (here <<>>) or NONE while ADX cannot be computed yet
Analyze(adx, plus_di, minus_di, adx_rising, di_crossover) ==
    IF adx = <<>>
    THEN [adx |-> <<>>, plus_di |-> <<>>, minus_di |-> <<>>,
          trend_direction |-> "NONE", adx_rising |-> <<>>,
          di_crossover |-> FALSE]
    ELSE [adx |-> adx, plus_di |-> <<plus_di>>, minus_di |-> <<minus_di>>,
          trend_direction |-> TrendDirection(plus_di, minus_di),
          adx_rising |-> adx_rising, di_crossover |-> di_crossover]

TrendingByDirectionOnly(a) ==
    IF a.trend_direction = "UP" THEN <<"TRENDING_UP">>
    ELSE IF a.trend_direction = "DOWN" THEN <<"TRENDING_DOWN">>
    ELSE <<>>

\* the state the trending branch of _determine_market_state returns, <<>>
\* when it returns none and the code falls through
Trending(a) ==
    IF a.trend_direction = "UP" \/ a.plus_di[1] > a.minus_di[1]
    THEN <<"TRENDING_UP">>
    ELSE IF a.trend_direction = "DOWN" \/ a.minus_di[1] > a.plus_di[1]
    THEN <<"TRENDING_DOWN">>
    ELSE <<>>

UnknownThreeTenths(adx) == [state |-> "UNKNOWN", confidence |-> 30]

\* the two returns of UNKNOWN: without an ADX, and after every branch
Unknown(adx) ==
    IF adx = <<>> THEN [state |-> "UNKNOWN", confidence |-> 0]
    ELSE [state |-> "UNKNOWN", confidence |-> 30]

\* _determine_market_state; a carries its arguments
DetermineMarketState(a) ==
    LET adx == IF a.adx = <<>> THEN 0 ELSE a.adx[1]
        on_breakout == adx > StrongTrendThreshold
                       \/ (a.is_breakout /\ (a.atr_expanding \/ a.volume_spike))
        breakout_confidence == 85 + (IF a.atr_expanding THEN 5 ELSE 0)
                                  + (IF a.volume_spike THEN 5 ELSE 0)
        strong == IF adx > StrongTrendThreshold
                  THEN TrendingByDirectionOnly(a) ELSE <<>>
        trending_confidence == 60 + (IF a.adx_rising = <<TRUE>> THEN 10 ELSE 0)
                                  + (IF a.di_crossover THEN 10 ELSE 0)
        ranging_confidence ==
            70 + (IF a.adx_rising # <<TRUE>> THEN 10 ELSE 0)
               + (IF a.volume_condition \in {"LOW", "VERY_LOW"} THEN 5 ELSE 0)
    IN  IF a.adx = <<>>
        THEN Unknown(a.adx)
        ELSE IF on_breakout /\ a.is_breakout
        THEN [state |-> IF a.breakout_direction = "up" THEN "BREAKOUT_UP"
                        ELSE "BREAKOUT_DOWN",
              confidence |-> Min(breakout_confidence, 100)]
        ELSE IF on_breakout /\ strong # <<>>
        THEN [state |-> strong[1], confidence |-> 75]
        ELSE IF adx >= RangingThreshold /\ Trending(a) # <<>>
        THEN [state |-> Trending(a)[1],
              confidence |-> Min(trending_confidence, 100)]
        ELSE IF adx < RangingThreshold
        THEN [state |-> "RANGING", confidence |-> Min(ranging_confidence, 100)]
        ELSE Unknown(a.adx)

\* ------------------------------------------------------------------------
\* SignalGenerator
\* ------------------------------------------------------------------------

\* fewest closes generate works on
GenerateMinCloses == 60

\* signal_thresholds of the configuration, in hundredths
StrongSignal == 75

StandardSignal == 50

WeakSignal == 30

\* _select_strategy
SelectStrategy(market_state) ==
    CASE market_state = "RANGING" -> "ranging"
      [] market_state \in {"BREAKOUT_UP", "BREAKOUT_DOWN"} -> "breakout"
      [] OTHER -> "trending"

CalculateGradeAboveOnly(strength) ==
    IF ~RatGeq(<<StrongSignal, 100>>, strength) THEN "A"
    ELSE IF ~RatGeq(<<StandardSignal, 100>>, strength) THEN "B"
    ELSE IF ~RatGeq(<<WeakSignal, 100>>, strength) THEN "C"
    ELSE "NONE"

\* _calculate_grade of a strength given as a fraction
CalculateGrade(strength) ==
    IF RatGeq(strength, <<StrongSignal, 100>>) THEN "A"
    ELSE IF RatGeq(strength, <<StandardSignal, 100>>) THEN "B"
    ELSE IF RatGeq(strength, <<WeakSignal, 100>>) THEN "C"
    ELSE "NONE"

\* prediction horizons of the configuration, in minutes
PredictionHorizons == <<10, 30, 60>>

NoTimeDecay(horizon) == <<1, 1>>

\* time_decay = 1.0 - (horizon / 120) * 0.3, as a fraction
TimeDecay(horizon) == <<400 - horizon, 400>>

\* round(num / den, 0); Python rounds the float product, so an exact
\* tie may go either way: up says which
Round(num, den, up) ==
    LET q == num \div den
        r == num % den
    IN  IF 2 * r > den \/ (2 * r = den /\ up) THEN q + 1 ELSE q

\* round(strength * time_decay, 3) in thousandths; the decay of the
\* configured horizons is a whole number of thousandths
Confidence(strength, horizon, up) ==
    Round(strength[1] * ((1000 * TimeDecay(horizon)[1]) \div TimeDecay(horizon)[2]),
          strength[2], up)

\* _generate_predictions for a strength given as a fraction; ups says for
\* each horizon how a tie is rounded. The target price is left out
GeneratePredictions(direction, strength, ups) ==
    IF direction = "HOLD" THEN <<>>
    ELSE [i \in 1..Len(PredictionHorizons) |->
            [horizon_minutes |-> PredictionHorizons[i],
             direction |-> IF direction = "BUY" THEN "up" ELSE "down",
             confidence |-> Confidence(strength, PredictionHorizons[i], ups[i])]]

\* SignalGenerator._no_signal
NoSignal(reason) ==
    [raised |-> FALSE, direction |-> "HOLD", strength |-> 0,
     adjusted_strength |-> <<0, 1>>, grade |-> "NONE", is_confirmed |-> FALSE,
     reason |-> reason]

\* generate on n primary closes: market_state is what detect answers,
\* enabled the strategies the configuration enables, shape what the
\* selected strategy finds, timeframe_data the higher timeframes
Generate(n, market_state, enabled, shape, timeframe_data) ==
    LET strategy_name == SelectStrategy(market_state)
        strategy_signal == StrategyAnalyze(strategy_name, n, shape, <<>>)
        confirming == \E tf \in DOMAIN timeframe_data : timeframe_data[tf] # <<>>
        mtf_result == Confirm(strategy_signal.direction,
                              strategy_signal.strength, timeframe_data,
                              DefaultRules)
        adjusted_strength == IF confirming THEN mtf_result.adjusted_strength
                             ELSE <<strategy_signal.strength, 100>>
    IN  IF n < GenerateMinCloses THEN NoSignal("insufficient data")
        ELSE IF strategy_name \notin enabled THEN NoSignal("strategy disabled")
        ELSE IF strategy_signal.raised THEN strategy_signal
        ELSE IF strategy_signal.direction = "HOLD"
        THEN NoSignal(strategy_signal.reason)
        ELSE IF confirming /\ mtf_result.raised THEN Raise(mtf_result.error)
        ELSE [raised |-> FALSE, direction |-> strategy_signal.direction,
              strength |-> strategy_signal.strength,
              adjusted_strength |-> adjusted_strength,
              grade |-> CalculateGrade(adjusted_strength),
              is_confirmed |-> IF confirming THEN mtf_result.is_confirmed
                               ELSE TRUE,
              reason |-> strategy_signal.reason]

\* ------------------------------------------------------------------------
\* LiveTradingSystemV2: a signal per closed frame of the primary interval
\* ------------------------------------------------------------------------

\* capacity of the primary ring (buffer_size=200), scaled down: a candle of
\* the model stands for BarsPerCandle candles of the source
V2MaxClosed == 2

BarsPerCandle == 30

\* get_ohlcv_data answers None with fewer closes than this (30, scaled down)
V2MinCloses == 1

\* cap of signal_history (100, scaled down with the ring)
V2HistoryCap == 3

\* MultiTimeframeBuffer.get_ohlcv_data(primary_interval): the closes, or
\* None
GetOhlcvData(b) ==
    LET closes == Closes(b, TRUE)
    IN  IF Len(closes) < V2MinCloses THEN <<>> ELSE <<closes>>

\* handle_signal: signal_history after the call
HandleSignal(history, signal) ==
    TakeLast(Append(history, signal), V2HistoryCap)

\* generate_signal on the buffer b: signal_history after the call; the
\* market state and the shape of the series are what the data make them
GenerateSignal(history, b, market_state, shape) ==
    LET primary_data == GetOhlcvData(b)
        signal == Generate(BarsPerCandle * Len(primary_data[1]), market_state,
                           {"ranging", "trending", "breakout"}, shape,
                           [tf \in ConfirmationTimeframes |-> <<>>])
    IN  IF primary_data = <<>> THEN history
        ELSE IF signal.raised THEN history
        ELSE HandleSignal(history, signal)

\* process_kline(primary_interval, data): signal_history after the call,
\* b being the buffer after update_from_ws
V2ProcessKline(history, b, payload, market_state, shape) ==
    IF payload.x THEN GenerateSignal(history, b, market_state, shape)
    ELSE history

\* ------------------------------------------------------------------------
\* ResonanceStrategy.calculate_resonance
\* ------------------------------------------------------------------------

\* the indicators of the model that vote on a direction
ResonanceIndicators == {"RSI", "MACD"}

\* the indicators that answer signal: the enabled ones whose value is there
\* and whose check answers it
Voting(cfg, checks, signal) ==
    {i \in ResonanceIndicators : cfg.use[i] /\ checks[i] = signal}

\* details['trend'] is written: the EMA layer is enabled and has a value
TrendChecked(cfg, trend) == cfg.use_ema /\ trend # <<>>

\* the trend calculate_resonance works with
TrendOf(cfg, trend) == IF TrendChecked(cfg, trend) THEN trend[1] ELSE "NEUTRAL"

\* the keys of details after the checks
DetailsKeys(cfg, trend) ==
    (IF TrendChecked(cfg, trend) THEN {"trend"} ELSE {})
      \cup {"momentum", "volatility", "timing"}

\* the branch that halves the score and writes details['trend']['penalty']
TrendPenalty(cfg, trend, wanted) ==
    cfg.use_trend_filter /\ TrendOf(cfg, trend) # wanted

\* calculate_resonance: cfg holds the switches and filters of __init__,
\* checks what the check of each indicator answers, trend what
\* check_trend_alignment answers when the EMA values are there; the scores
\* are left out
CalculateResonance(cfg, checks, trend, momentum_confirmed, volatility_ok) ==
    LET buy_indicators == Voting(cfg, checks, "BUY")
        sell_indicators == Voting(cfg, checks, "SELL")
        details == DetailsKeys(cfg, trend)
        direction ==
            IF Cardinality(buy_indicators) >= cfg.min_resonance THEN "BUY"
            ELSE IF Cardinality(sell_indicators) >= cfg.min_resonance
            THEN "SELL"
            ELSE "HOLD"
        wanted == IF direction = "BUY" THEN "BULLISH" ELSE "BEARISH"
        halved == direction # "HOLD" /\ TrendPenalty(cfg, trend, wanted)
        discounted == /\ direction # "HOLD"
                      /\ cfg.use_momentum_filter
                      /\ ~momentum_confirmed
        checked_volatility_ok == ~cfg.use_volatility_filter \/ volatility_ok
    IN  IF halved /\ "trend" \notin details THEN Raise("KeyError")
        ELSE [raised |-> FALSE,
              signal_type |-> IF checked_volatility_ok THEN direction
                              ELSE "HOLD",
              resonance_count |-> Max(Cardinality(buy_indicators),
                                      Cardinality(sell_indicators)),
              halved |-> halved,
              discounted |-> discounted,
              trend_aligned |-> /\ checked_volatility_ok
                                /\ direction # "HOLD"
                                /\ TrendOf(cfg, trend) = wanted,
              volatility_ok |-> checked_volatility_ok]

\* ------------------------------------------------------------------------
\* MACDAnalyzer: the filtered signal
\* ------------------------------------------------------------------------

\* lookback of _check_angle_condition and _check_histogram_momentum
CheckLookback == 5

\* lookback_period of MACDAnalyzer.__init__
MACDLookbackPeriod == 50

\* update_history keeps max(lookback_period, 10) values
MinHistoryKept == 10

\* of the pairs of the last CheckLookback histogram values, the number that
\* must move with the cross
MomentumPairs == 3

\* min_hist_threshold (0.0005), the unit of the MACD values of this model
MinHistThreshold == 1

\* angle_multiplier (0.5) as <<numerator, denominator>>
AngleMultiplier == <<1, 2>>

Abs(x) == IF x < 0 THEN 0 - x ELSE x

\* no MACDAnalyzer yet
NoAnalyzer == [constructed |-> FALSE]

\* MACDAnalyzer.__init__
NewAnalyzer(cfg) ==
    [constructed |-> TRUE, lookback_period |-> cfg.lookback_period,
     min_zero_distance |-> Abs(cfg.min_zero_distance),
     previous_values |-> <<>>, macd_history |-> <<>>,
     signal_history |-> <<>>, histogram_history |-> <<>>]

\* get_current_values() of a MACDIndicator that has not seen enough prices
NoneValues == [macd_line |-> <<>>, signal_line |-> <<>>, histogram |-> <<>>]

\* get_current_values() of a MACDIndicator with its lines at m and s
Values(m, s) ==
    [macd_line |-> <<m>>, signal_line |-> <<s>>, histogram |-> <<m - s>>]

\* pop(0) of a list longer than n
PopIfLonger(q, longer) == IF longer THEN Tail(q) ELSE q

\* update_history
UpdateHistory(self, current_values) ==
    LET max_length == Max(self.lookback_period, MinHistoryKept)
        longer == Len(self.macd_history) + 1 > max_length
    IN  IF current_values.macd_line = <<>> THEN self
        ELSE [self EXCEPT
                !.macd_history =
                    PopIfLonger(Append(@, current_values.macd_line[1]), longer),
                !.signal_history =
                    PopIfLonger(Append(@, current_values.signal_line[1]), longer),
                !.histogram_history =
                    PopIfLonger(Append(@, current_values.histogram[1]), longer)]

\* _detect_cross
DetectCross(self, current_values) ==
    IF current_values.macd_line = <<>> \/ current_values.signal_line = <<>>
    THEN "None"
    ELSE IF self.previous_values = <<>> THEN "None"
    ELSE LET prev == self.previous_values[1]
             curr_macd == current_values.macd_line[1]
             curr_signal == current_values.signal_line[1]
         IN  IF prev.macd_line = <<>> \/ prev.signal_line = <<>> THEN "None"
             ELSE IF /\ prev.macd_line[1] < prev.signal_line[1]
                     /\ curr_macd > curr_signal
                  THEN "golden"
             ELSE IF /\ prev.macd_line[1] > prev.signal_line[1]
                     /\ curr_macd < curr_signal
                  THEN "dead"
             ELSE "None"

\* the last n values of q
LastValues(q, n) == SubSeq(q, Len(q) - n + 1, Len(q))

\* np.polyfit(np.arange(len(y)), y, 1)[0], the least squares slope, as
\* <<numerator, denominator>>
PolyfitSlope(y) ==
    LET n == Len(y)
        weight == [i \in 1..n |-> 2 * i - n - 1]
    IN  <<2 * Sum([i \in 1..n |-> weight[i] * y[i]], 1..n),
          Sum([i \in 1..n |-> weight[i] * weight[i]], 1..n)>>

\* np.diff
Diff(q) == [i \in 1..(Len(q) - 1) |-> q[i + 1] - q[i]]

\* np.std(d) squared, as <<numerator, denominator>>
Variance(d) ==
    LET n == Len(d)
        total == Sum(d, 1..n)
    IN  <<n * Sum([i \in 1..n |-> d[i] * d[i]], 1..n) - total * total, n * n>>

\* the first value of _check_angle_condition: angle > threshold, compared
\* by the squares of the two sides, which are not negative
CheckAngleCondition(self) ==
    LET macd_slope == PolyfitSlope(LastValues(self.macd_history, CheckLookback))
        signal_slope ==
            PolyfitSlope(LastValues(self.signal_history, CheckLookback))
        angle == <<Abs(macd_slope[1] - signal_slope[1]), macd_slope[2]>>
        variance ==
            IF Len(self.macd_history) >= self.lookback_period
            THEN Variance(Diff(LastValues(self.macd_history,
                                          self.lookback_period)))
            ELSE IF Len(self.macd_history) > 1
                 THEN Variance(Diff(self.macd_history))
                 ELSE <<1, 1>>
    IN  IF \/ Len(self.macd_history) < CheckLookback
           \/ Len(self.signal_history) < CheckLookback
        THEN FALSE
        ELSE angle[1] * angle[1] * variance[2]
               * AngleMultiplier[2] * AngleMultiplier[2]
             > variance[1] * AngleMultiplier[1] * AngleMultiplier[1]
                 * angle[2] * angle[2]

\* _check_histogram_momentum
CheckHistogramMomentum(self, cross_type) ==
    LET hist == LastValues(self.histogram_history, CheckLookback)
        increasing_count ==
            Cardinality({i \in 1..(Len(hist) - 1) : hist[i + 1] > hist[i]})
        decreasing_count ==
            Cardinality({i \in 1..(Len(hist) - 1) : hist[i + 1] < hist[i]})
    IN  IF Len(self.histogram_history) < CheckLookback THEN FALSE
        ELSE IF cross_type = "golden" THEN increasing_count >= MomentumPairs
        ELSE IF cross_type = "dead" THEN decreasing_count >= MomentumPairs
        ELSE FALSE

\* _check_histogram_threshold
CheckHistogramThreshold(self) ==
    IF Len(self.histogram_history) < 1 THEN FALSE
    ELSE Abs(self.histogram_history[Len(self.histogram_history)])
           > MinHistThreshold

\* _check_zero_distance
CheckZeroDistance(self, current_values) ==
    IF self.min_zero_distance <= 0 THEN TRUE
    ELSE IF current_values.macd_line = <<>> \/ current_values.signal_line = <<>>
         THEN FALSE
    ELSE Min(Abs(current_values.macd_line[1]),
             Abs(current_values.signal_line[1])) >= self.min_zero_distance

\* sum([...]) of booleans
ConditionsMet(conditions) ==
    Cardinality({k \in DOMAIN conditions : conditions[k]})

StrengthStrongFromThree(conditions_met) ==
    IF conditions_met >= 3 THEN "strong"
    ELSE IF conditions_met >= 2 THEN "weak"
    ELSE "none"

\* the strength get_filtered_signal gives a cross
Strength(conditions_met) ==
    IF conditions_met = 4 THEN "strong"
    ELSE IF conditions_met >= 2 THEN "weak"
    ELSE "none"

\* f'strong_{cross_type}', f'weak_{cross_type}' or 'none'
FilteredSignalName(strength, cross_type) ==
    IF strength = "none" THEN "none"
    ELSE IF strength = "strong"
         THEN (IF cross_type = "golden" THEN "strong_golden" ELSE "strong_dead")
    ELSE (IF cross_type = "golden" THEN "weak_golden" ELSE "weak_dead")

\* get_filtered_signal with the indicator at current: the analyzer after
\* the call and the signal, cross_detected and conditions of the result
GetFilteredSignal(self, current) ==
    LET recorded == UpdateHistory(self, current)
        cross_type == DetectCross(recorded, current)
        conditions ==
            [angle_check |-> CheckAngleCondition(recorded),
             momentum_check |-> CheckHistogramMomentum(recorded, cross_type),
             threshold_check |-> CheckHistogramThreshold(recorded),
             zero_distance_check |-> CheckZeroDistance(recorded, current)]
    IN  [self |-> [recorded EXCEPT !.previous_values = <<current>>],
         result |->
            IF cross_type = "None"
            THEN [signal |-> "none", cross_detected |-> FALSE,
                  conditions |-> [angle_check |-> FALSE,
                                  momentum_check |-> FALSE,
                                  threshold_check |-> FALSE,
                                  zero_distance_check |-> FALSE]]
            ELSE [signal |-> FilteredSignalName(
                                 Strength(ConditionsMet(conditions)), cross_type),
                  cross_detected |-> TRUE,
                  conditions |-> conditions]]

\* ------------------------------------------------------------------------
\* The buffer under arbitrary ticks
\* ------------------------------------------------------------------------

\* the state after construction, with a ring of capacity max_closed
Constructed(max_closed) ==
    /\ closed_candles = NewBuffer(max_closed).closed_candles
    /\ active_candle = NewBuffer(max_closed).active_candle
    /\ last_closed_ts = NewBuffer(max_closed).last_closed_ts
    /\ maxlen = NewBuffer(max_closed).maxlen
    /\ raised = NewBuffer(max_closed).raised
    /\ last = [tick |-> NoTick, outcome |-> "none", full |-> FALSE]
    /\ run = NoRun
    /\ state = NewState
    /\ now = 0
    /\ calls = NoCalls
    /\ loops = [l \in Loops |-> NewLoop]
    /\ call = NoCall
    /\ rsi_indicator = NewRSI
    /\ signal_history = <<>>
    /\ heap = NewHeap(max_closed)
    /\ analyzer = NoAnalyzer

Init == Constructed(MaxClosed)

\* one call of StreamingKlineBuffer.update
UpdateStep ==
    \E candle \in Ticks :
        LET b == Update(Buffer, candle)
            o == Outcome(Buffer, candle)
        IN  /\ closed_candles' = b.closed_candles
            /\ active_candle' = b.active_candle
            /\ last_closed_ts' = b.last_closed_ts
            /\ maxlen' = b.maxlen
            /\ raised' = b.raised
            /\ last' = [tick |-> candle, outcome |-> o,
                        full |-> Len(closed_candles) >= maxlen]
            /\ run' = NextRun(run, candle, o)
            /\ UNCHANGED <<dashvars, loops, call, kernelvars, v2vars, heapvars, analyzervars>>

Next == UpdateStep

Spec == Init /\ [][Next]_vars

\* ------------------------------------------------------------------------
\* The dashboard: frames of the primary interval, the verification loop
\* and the passing of time
\* ------------------------------------------------------------------------

\* one frame handled by process_kline, with the direction the generator
\* returns for it; the history of the invocations is kept when tracked
ProcessKlineStep(frames, max_signals, tracked) ==
    \E payload \in frames, direction \in Directions :
        LET b == UpdateFromWs(Buffer, payload)
            st == ProcessKline(state, Buffer, payload, direction, now)
            analysed == Len(Closes(b, TRUE)) >= MinCloses
            kline_time == CurrentKlineTime(b)
        IN  /\ st.total_signals <= max_signals
            /\ closed_candles' = b.closed_candles
            /\ active_candle' = b.active_candle
            /\ last_closed_ts' = b.last_closed_ts
            /\ maxlen' = b.maxlen
            /\ raised' = b.raised
            /\ state' = st
            /\ calls' = IF tracked /\ analysed
                        THEN NextCalls(calls, state, direction, kline_time,
                                       Created(state, st))
                        ELSE calls
            /\ UNCHANGED <<last, run, now, loops, call, kernelvars, v2vars, heapvars, analyzervars>>

\* one pass of verification_loop
VerifySignalsStep ==
    /\ state' = VerifySignals(state, now)
    /\ UNCHANGED <<bufvars, last, run, now, calls, loops, call, kernelvars, v2vars, heapvars, analyzervars>>

\* time passes
ClockTick ==
    /\ now < MaxNow
    /\ now' = now + 1
    /\ UNCHANGED <<bufvars, last, run, state, calls, loops, call, kernelvars, v2vars, heapvars, analyzervars>>

\* LiveDashboardSystem.__init__: the buffers are built with max_closed=200
InitDash == Constructed(DashMaxClosed)

\* frames and verification passes within one step of the clock
NextSignals == ProcessKlineStep(SignalFrames, MaxSignals, TRUE) \/ VerifySignalsStep

SpecSignals == InitDash /\ [][NextSignals]_vars

\* frames, verification passes and the passing of time
NextDash ==
    ProcessKlineStep(TimedFrames, MaxTimedSignals, FALSE) \/ VerifySignalsStep \/ ClockTick

SpecDash == InitDash /\ [][NextDash]_vars

\* the reconnect loops of the three systems, each running on its own
SpecLoops == InitDash /\ [][NextLoops]_vars

\* ------------------------------------------------------------------------
\* The strategy layer, one call at a time
\* ------------------------------------------------------------------------

OnlyCall ==
    UNCHANGED <<closed_candles, active_candle, last_closed_ts, maxlen, raised,
                last, run, state, now, calls, loops, kernelvars, v2vars, heapvars, analyzervars>>

\* values of ADX around the two thresholds, None first
ADXValues == {<<>>, <<19>>, <<20>>, <<40>>, <<41>>}

\* +DI and -DI
DIValues == {1, 2}

\* _check_price_breakout: (is_breakout, direction)
Breakouts == {<<FALSE, "None">>, <<TRUE, "up">>, <<TRUE, "down">>}

\* detect: the ADX analysis, the ATR and volume findings and the price
\* breakout, then _determine_market_state
DetectStep ==
    /\ call = NoCall
    /\ \E adx \in ADXValues, plus_di \in DIValues, minus_di \in DIValues,
          adx_rising \in {<<>>, <<TRUE>>, <<FALSE>>}, di_crossover \in BOOLEAN,
          atr_expanding \in BOOLEAN, volume_spike \in BOOLEAN,
          volume_condition \in {"NORMAL", "LOW", "HIGH"},
          breakout \in Breakouts :
          LET adx_result == Analyze(adx, plus_di, minus_di, adx_rising,
                                    di_crossover)
              a == [adx |-> adx_result.adx,
                    plus_di |-> adx_result.plus_di,
                    minus_di |-> adx_result.minus_di,
                    trend_direction |-> adx_result.trend_direction,
                    adx_rising |-> adx_result.adx_rising,
                    di_crossover |-> adx_result.di_crossover,
                    atr_expanding |-> atr_expanding,
                    volume_spike |-> volume_spike,
                    volume_condition |-> volume_condition,
                    is_breakout |-> breakout[1],
                    breakout_direction |-> breakout[2]]
          IN  call' = [op |-> "detect", args |-> a,
                       result |-> DetermineMarketState(a)]
    /\ OnlyCall

\* lengths of a close series around the guards of the strategy layer
SeriesLengths == {29, 30, 59, 60}

\* the OHLCV data of one higher timeframe as confirm reads it, <<>> absent
TimeframeData ==
    {<<>>}
    \cup {<<[n |-> n, trend |-> trend, volume |-> volume]>> :
            n \in {29, 30, 60}, trend \in {"aligned", "partial", "against"},
            volume \in {"up", "flat", "empty"}}

\* confirmation_rules a configuration may carry: the defaults, the trend
\* check alone, and the trend and volume checks
TrendOnlyRules ==
    [tf \in ConfirmationTimeframes |->
        [check_trend |-> TRUE, check_rsi_extreme |-> FALSE, check_macd |-> FALSE,
         check_volume_trend |-> FALSE]]

TrendAndVolumeRules ==
    [tf \in ConfirmationTimeframes |->
        [check_trend |-> TRUE, check_rsi_extreme |-> FALSE, check_macd |-> FALSE,
         check_volume_trend |-> TRUE]]

RuleSets == {DefaultRules, TrendOnlyRules, TrendAndVolumeRules}

\* strengths of a primary signal, in hundredths
Strengths == {50, 80}

\* MultiTimeframeConfirmer(config).confirm(signal_direction,
\* primary_strength, timeframe_data)
ConfirmStep ==
    /\ call = NoCall
    /\ \E signal_direction \in {"BUY", "SELL", "HOLD"},
          primary_strength \in Strengths,
          timeframe_data \in [ConfirmationTimeframes -> TimeframeData],
          rules \in RuleSets :
          call' = [op |-> "confirm",
                   args |-> [signal_direction |-> signal_direction,
                             primary_strength |-> primary_strength,
                             timeframe_data |-> timeframe_data,
                             rules |-> rules],
                   result |-> Confirm(signal_direction, primary_strength,
                                      timeframe_data, rules)]
    /\ OnlyCall

\* what a caller may pass as precomputed indicators, by what the
\* strategy's condition checks count on them; <<>> for none
Indicators ==
    {<<>>}
    \cup {<<c>> : c \in [buy_signals : 1..3, buy_strength : {40, 50, 80},
                         sell_signals : 1..3, sell_strength : {40, 50, 80}]}

\* what the strategy finds in the series: trend or breakout direction
SeriesShapes == {"up", "down", "none"}

\* strategy.analyze(highs, lows, closes, volumes, indicators) of one of
\* the three strategies
AnalyzeStep ==
    /\ call = NoCall
    /\ \E strategy \in {"ranging", "trending", "breakout"},
          n \in SeriesLengths, shape \in SeriesShapes,
          indicators \in Indicators :
          call' = [op |-> "analyze",
                   args |-> [strategy |-> strategy, n |-> n, shape |-> shape,
                             indicators |-> indicators],
                   result |-> StrategyAnalyze(strategy, n, shape, indicators)]
    /\ OnlyCall

\* precomputed scalar indicator values handed to the ranging strategy
RangingReadings ==
    [percent_b : {"below_0", "low", "mid", "high", "above_1", "None"},
     rsi : {"lt_20", "oversold", "mid", "overbought", "gt_80"},
     j : {"low", "mid", "high"},
     k : {"low", "mid", "high"},
     cross : {"golden", "dead", "none"},
     volume_low : BOOLEAN]

\* RangingStrategy.analyze(highs, lows, closes, volumes, indicators) with
\* precomputed indicators
RangingAnalyzeStep ==
    /\ call = NoCall
    /\ \E n \in {29, 30}, x \in RangingReadings :
          call' = [op |-> "ranging",
                   args |-> [n |-> n, indicators |-> x,
                             conditions |-> RangingConditions(x)],
                   result |-> RangingAnalyze(n, <<RangingConditions(x)>>)]
    /\ OnlyCall

\* the weakest and some stronger strengths a strategy emits, in hundredths
EmittedStrengths == {35, 50, 80, 100}

\* generate from the confirmation on, for a BUY or SELL of the strategy:
\* the adjusted strength and _generate_predictions on it
GeneratePredictionsStep ==
    /\ call = NoCall
    /\ \E direction \in {"BUY", "SELL", "HOLD"},
          strength \in EmittedStrengths,
          timeframe_data \in [ConfirmationTimeframes -> TimeframeData],
          rules \in {TrendOnlyRules, TrendAndVolumeRules},
          ups \in [1..Len(PredictionHorizons) -> BOOLEAN] :
          LET confirming == \E tf \in ConfirmationTimeframes :
                                timeframe_data[tf] # <<>>
              adjusted_strength ==
                  IF direction = "HOLD" THEN <<0, 1>>
                  ELSE IF confirming
                  THEN Confirm(direction, strength, timeframe_data,
                               rules).adjusted_strength
                  ELSE <<strength, 100>>
          IN  call' = [op |-> "predict",
                       args |-> [direction |-> direction,
                                 strength |-> adjusted_strength],
                       result |-> GeneratePredictions(direction,
                                                      adjusted_strength, ups)]
    /\ OnlyCall

MarketStates ==
    {"RANGING", "TRENDING_UP", "TRENDING_DOWN", "BREAKOUT_UP", "BREAKOUT_DOWN",
     "UNKNOWN"}

\* the strategies a configuration enables: all, or all but one
EnabledSets ==
    {{"ranging", "trending", "breakout"}, {"ranging", "breakout"},
     {"trending", "breakout"}}

\* higher-timeframe data handed to generate
GenerateTimeframeData ==
    {<<>>, <<[n |-> 29, trend |-> "aligned", volume |-> "up"]>>,
     <<[n |-> 60, trend |-> "aligned", volume |-> "up"]>>}

\* SignalGenerator.generate(highs, lows, closes, volumes, timeframe_data)
GenerateStep ==
    /\ call = NoCall
    /\ \E n \in SeriesLengths, market_state \in MarketStates,
          enabled \in EnabledSets, shape \in SeriesShapes,
          timeframe_data \in [ConfirmationTimeframes -> GenerateTimeframeData] :
          call' = [op |-> "generate",
                   args |-> [n |-> n, market_state |-> market_state,
                             enabled |-> enabled, shape |-> shape,
                             timeframe_data |-> timeframe_data],
                   result |-> Generate(n, market_state, enabled, shape,
                                       timeframe_data)]
    /\ OnlyCall

\* _calculate_grade(strength), also right after another such call
CalculateGradeStep ==
    /\ call.op \in {"none", "grade"}
    /\ \E strength \in 0..100 :
          call' = [op |-> "grade", args |-> strength,
                   result |-> CalculateGrade(<<strength, 100>>)]
    /\ OnlyCall

\* the caller is done with the result
Return ==
    /\ call # NoCall
    /\ call' = NoCall
    /\ OnlyCall

NextStrategy ==
    DetectStep \/ ConfirmStep \/ AnalyzeStep \/ RangingAnalyzeStep
    \/ GenerateStep \/ GeneratePredictionsStep
    \/ CalculateGradeStep \/ Return

SpecStrategy == InitDash /\ [][NextStrategy]_vars

\* ------------------------------------------------------------------------
\* The indicator kernels, one call at a time
\* ------------------------------------------------------------------------

\* everything but the strategy call and the RSI instance
OnlyKernels ==
    UNCHANGED <<closed_candles, active_candle, last_closed_ts, maxlen, raised,
                last, run, state, now, calls, loops, v2vars, heapvars, analyzervars>>

\* the numbers of bars handed to calculate
BarCounts == 0..MaxBars

\* the prices fed to update
Prices == 1..MaxPrice

\* calculate of one kernel on a fresh series of n bars
CalculateStep ==
    /\ call = NoCall
    /\ rsi_indicator = NewRSI
    /\ \E kernel \in Kernels, n \in BarCounts :
          call' = [op |-> "calculate", args |-> [kernel |-> kernel, n |-> n],
                   raises |-> KernelRaises(kernel, n),
                   result |-> KernelSeries(kernel, n)]
    /\ OnlyCall

\* one more price through RSIIndicator(RSIPeriod).update
RSIUpdateStep ==
    /\ call.op \in {"none", "update"}
    /\ Len(rsi_indicator.price_history) < MaxPrices
    /\ \E new_price \in Prices :
          /\ rsi_indicator' = RSIUpdate(rsi_indicator, new_price, RSIPeriod)
          /\ call' = [op |-> "update", args |-> new_price,
                      result |-> RSIUpdateResult(rsi_indicator, new_price,
                                                RSIPeriod)]
    /\ OnlyKernels

\* RSIIndicator.reset
RSIResetStep ==
    /\ rsi_indicator # NewRSI
    /\ rsi_indicator' = NewRSI
    /\ call' = NoCall
    /\ OnlyKernels

NextKernels == CalculateStep \/ RSIUpdateStep \/ RSIResetStep \/ Return

SpecKernels == InitDash /\ [][NextKernels]_vars

\* ------------------------------------------------------------------------
\* LiveTradingSystemV2, one frame at a time
\* ------------------------------------------------------------------------

\* the frames of the primary interval: candles 0..MaxFrameTs, open or
\* closed, at one price
V2Frames == SignalFrames

\* one frame of the primary interval through process_kline
V2ProcessKlineStep ==
    \E payload \in V2Frames, market_state \in MarketStates,
       shape \in SeriesShapes :
        LET b == UpdateFromWs(Buffer, payload)
            candle == [timestamp |-> payload.t, open |-> payload.o,
                       high |-> payload.h, low |-> payload.l,
                       close |-> payload.c, volume |-> payload.v,
                       is_closed |-> payload.x]
            o == Outcome(Buffer, candle)
        IN  /\ closed_candles' = b.closed_candles
            /\ active_candle' = b.active_candle
            /\ last_closed_ts' = b.last_closed_ts
            /\ maxlen' = b.maxlen
            /\ raised' = b.raised
            /\ last' = [tick |-> candle, outcome |-> o,
                        full |-> Len(closed_candles) >= maxlen]
            /\ run' = NextRun(run, candle, o)
            /\ signal_history' =
                   V2ProcessKline(signal_history, b, payload, market_state,
                                  shape)
            /\ UNCHANGED <<dashvars, loops, call, kernelvars, heapvars, analyzervars>>

InitV2 == Constructed(V2MaxClosed)

NextV2 == V2ProcessKlineStep

SpecV2 == InitV2 /\ [][NextV2]_vars

\* ------------------------------------------------------------------------
\* The resonance strategy, one call at a time
\* ------------------------------------------------------------------------

\* the switches and filters handed to ResonanceStrategy.__init__
ResonanceConfigs ==
    [min_resonance : 1..MaxResonance,
     use_trend_filter : BOOLEAN, use_momentum_filter : BOOLEAN,
     use_volatility_filter : BOOLEAN, use_ema : BOOLEAN,
     use : [ResonanceIndicators -> BOOLEAN]]

\* what the EMA layer answers: no values, or a trend
Trends == {<<>>, <<"BULLISH">>, <<"BEARISH">>, <<"NEUTRAL">>}

\* calculate_resonance on one set of indicator values
CalculateResonanceStep ==
    /\ call = NoCall
    /\ \E cfg \in ResonanceConfigs,
          checks \in [ResonanceIndicators -> {"BUY", "SELL", "HOLD"}],
          trend \in Trends, momentum_confirmed \in BOOLEAN,
          volatility_ok \in BOOLEAN :
          call' = [op |-> "resonance",
                   args |-> [cfg |-> cfg, checks |-> checks, trend |-> trend,
                             momentum_confirmed |-> momentum_confirmed,
                             volatility_ok |-> volatility_ok],
                   result |-> CalculateResonance(cfg, checks, trend,
                                                 momentum_confirmed,
                                                 volatility_ok)]
    /\ OnlyCall

NextResonance == CalculateResonanceStep \/ Return

SpecResonance == InitDash /\ [][NextResonance]_vars

\* ------------------------------------------------------------------------
\* MACDAnalyzer, one reading of the indicator at a time
\* ------------------------------------------------------------------------

\* the filter settings an analyzer is built with
AnalyzerConfigs ==
    [lookback_period : {MACDLookbackPeriod, CheckLookback}, min_zero_distance : {0, 1}]

\* the MACD and signal lines the indicator stands at
MACDValues == {Values(-3, 0), Values(-2, 0), Values(-1, 0), Values(3, 1)}

\* everything but the analyzer and the last call
OnlyAnalyzer ==
    UNCHANGED <<bufvars, last, run, dashvars, loops, kernelvars, v2vars,
                heapvars>>

NewAnalyzerStep ==
    /\ ~analyzer.constructed
    /\ \E cfg \in AnalyzerConfigs : analyzer' = NewAnalyzer(cfg)
    /\ UNCHANGED call
    /\ OnlyAnalyzer

\* the indicator has no values before its first ones, and has values ever
\* after
GetFilteredSignalStep ==
    /\ analyzer.constructed
    /\ call.op \in {"none", "get_filtered_signal"}
    /\ Len(analyzer.macd_history) < MaxAnalyzerCalls
    /\ \E current \in MACDValues \cup
                      (IF analyzer.macd_history = <<>> THEN {NoneValues} ELSE {}) :
          LET got == GetFilteredSignal(analyzer, current)
          IN  /\ analyzer' = got.self
              /\ call' = [op |-> "get_filtered_signal",
                          args |-> [self |-> analyzer, current |-> current],
                          result |-> got.result]
    /\ OnlyAnalyzer

NextAnalyzer == NewAnalyzerStep \/ GetFilteredSignalStep

SpecAnalyzer == InitDash /\ [][NextAnalyzer]_vars

\* ------------------------------------------------------------------------
\* The buffer and a caller that keeps what it handed over and what it got
\* ------------------------------------------------------------------------

\* the ticks the caller builds
HeapTicks == {c \in Ticks : c.timestamp <= MaxFrameTs /\ c.close = 3}

\* everything but the buffer, the last call and the objects
OnlyHeap == UNCHANGED <<run, dashvars, loops, kernelvars, v2vars, analyzervars>>

\* the caller builds a candle, hands it to update and keeps it
HeapUpdateStep ==
    /\ call = NoCall
    /\ UNCHANGED call
    /\ \E candle \in HeapTicks :
        LET dropped == [heap EXCEPT !.tick = <<>>]
            a == Alloc(dropped)
            built == [dropped EXCEPT !.tick = <<a>>, !.objects[a] = candle]
            b == Update(Buffer, candle)
        IN  /\ heap' = Collect(HeapUpdate(built, a))
            /\ closed_candles' = b.closed_candles
            /\ active_candle' = b.active_candle
            /\ last_closed_ts' = b.last_closed_ts
            /\ maxlen' = b.maxlen
            /\ raised' = b.raised
            /\ last' = [tick |-> candle, outcome |-> Outcome(Buffer, candle),
                        full |-> Len(closed_candles) >= maxlen]
            /\ OnlyHeap

\* the caller reads the candles and keeps the list in place of the one it
\* had
GetCandlesStep ==
    /\ call = NoCall
    /\ \E include_current \in BOOLEAN :
          LET got == HeapGetCandles(heap, include_current)
          IN  heap' = Collect([got EXCEPT !.returned = got.candles,
                                          !.candles = <<>>])
    /\ UNCHANGED <<bufvars, last, call>>
    /\ OnlyHeap

\* the caller reads the price arrays; the list get_candles built is gone
\* when get_price_arrays returns
GetPriceArraysStep ==
    /\ call = NoCall
    /\ \E include_current \in BOOLEAN :
          /\ call' = [op |-> "get_price_arrays", args |-> <<include_current>>,
                      result |-> HeapGetPriceArrays(heap, include_current)]
          /\ heap' = Collect([HeapGetCandles(heap, include_current)
                                EXCEPT !.candles = <<>>])
    /\ UNCHANGED <<bufvars, last>>
    /\ OnlyHeap

\* the caller writes a field of the candle it handed to update
MutateTickStep ==
    /\ call = NoCall
    /\ heap.tick # <<>>
    /\ \E m \in Mutations :
          heap' = [heap EXCEPT !.objects[heap.tick[1]] = Mutated(@, m)]
    /\ UNCHANGED <<bufvars, last, call>>
    /\ OnlyHeap

\* the caller writes a field of a candle of the list it got
MutateReturnedStep ==
    /\ call = NoCall
    /\ \E i \in 1..Len(heap.returned), m \in Mutations :
          heap' = [heap EXCEPT !.objects[heap.returned[i]] = Mutated(@, m)]
    /\ UNCHANGED <<bufvars, last, call>>
    /\ OnlyHeap

NextHeap ==
    \/ HeapUpdateStep
    \/ GetCandlesStep
    \/ GetPriceArraysStep
    \/ MutateTickStep
    \/ MutateReturnedStep
    \/ Return

SpecHeap == InitDash /\ [][NextHeap]_vars

\* ------------------------------------------------------------------------
\* Properties of the buffer
\* ------------------------------------------------------------------------

\* the step is an update call whose argument update does not drop
Applied == last.outcome \in {"created", "replaced", "merged"}

\* C1: a closed-bar tick whose open_time is <= last_closed_ts (as after it
\* was applied once) is discarded: the call leaves closed_candles,
\* active_candle and last_closed_ts as they were, for every open_time, 0
\* included.
ReplayIsDiscarded ==
    [][ ( /\ last'.tick.is_closed
          /\ last_closed_ts # <<>>
          /\ last'.tick.timestamp <= last_closed_ts[1] )
        => UNCHANGED <<closed_candles, active_candle, last_closed_ts>> ]_vars

\* C2: the candles of closed_candles have strictly increasing open_time.
ClosedStrictlyIncreasing ==
    \A i \in 1..Len(closed_candles) : \A j \in 1..Len(closed_candles) :
        i < j => closed_candles[i].timestamp < closed_candles[j].timestamp

\* C3: the active candle, if there is one, has an open_time greater than
\* that of every closed candle.
ActiveNewerThanClosed ==
    active_candle # <<>> =>
        \A i \in 1..Len(closed_candles) :
            closed_candles[i].timestamp < active_candle[1].timestamp

\* deque.append on a ring of capacity maxlen: the oldest candle goes when
\* the ring is full, the others keep their places
SealedInto(q, c) == (IF Len(q) >= maxlen THEN Tail(q) ELSE q) \o <<c>>

\* C26: closed_candles never holds more than maxlen candles, and a call
\* changes it only by sealing one candle, or the active candle and then
\* another, each seal on a full ring evicting exactly the oldest candle
\* and keeping the order of the rest.
RingIsBounded ==
    /\ [](Len(closed_candles) <= maxlen)
    /\ [][ \/ closed_candles' = closed_candles
           \/ closed_candles' =
                  SealedInto(closed_candles, Last(closed_candles'))
           \/ /\ active_candle # <<>>
              /\ closed_candles' =
                    SealedInto(SealedInto(closed_candles,
                                   [active_candle[1] EXCEPT !.is_closed = TRUE]),
                               Last(closed_candles')) ]_vars

\* C26 witness: a closed tick was sealed into a full ring, which is still
\* full and ends with it
OldestEvicted ==
    /\ last.full
    /\ last.outcome = "created"
    /\ last.tick.is_closed
    /\ Len(closed_candles) = maxlen
    /\ Last(closed_candles) = last.tick
    /\ closed_candles[1] # last.tick

\* C4: a tick that is not dropped and whose open_time differs from the
\* active candle's first seals the prior active candle (is_closed forced to
\* true, appended to closed_candles, last_closed_ts its open_time) and only
\* then becomes the active candle: at return the sealed prior candle is in
\* closed_candles right before anything the tick itself adds.
PriorActiveSealedFirst ==
    [][ last'.outcome = "replaced" =>
          LET prior  == [active_candle[1] EXCEPT !.is_closed = TRUE]
              tick   == last'.tick
              sealed == DequeAppend(closed_candles, maxlen, prior)
          IN  IF tick.is_closed
              THEN /\ closed_candles' = DequeAppend(sealed, maxlen, tick)
                   /\ active_candle' = <<>>
                   /\ last_closed_ts' = <<tick.timestamp>>
              ELSE /\ closed_candles' = sealed
                   /\ active_candle' = <<tick>>
                   /\ last_closed_ts' = <<prior.timestamp>> ]_vars

\* C4 witness: a tick has replaced an active candle of another open_time
ReplacedActive ==
    /\ last.outcome = "replaced"
    /\ ~last.tick.is_closed
    /\ active_candle = <<last.tick>>
    /\ Len(closed_candles) >= 2

\* C5: after an update with a closed tick that is not dropped, that candle
\* is the last element of closed_candles with is_closed true,
\* last_closed_ts is its open_time and there is no active candle.
ClosedTickIsSealed ==
    (Applied /\ last.tick.is_closed) =>
        /\ closed_candles # <<>>
        /\ Last(closed_candles).timestamp = last.tick.timestamp
        /\ Last(closed_candles).is_closed
        /\ Last(closed_candles).close = last.tick.close
        /\ Last(closed_candles).volume = last.tick.volume
        /\ last_closed_ts = <<last.tick.timestamp>>
        /\ active_candle = <<>>

\* C5 witness: a closed tick was merged into the active candle and sealed
ClosedTickMerged ==
    /\ last.outcome = "merged"
    /\ last.tick.is_closed
    /\ active_candle = <<>>

\* the candle matches the summary of the trailing run
MatchesRun(c) ==
    /\ c.timestamp = run.timestamp
    /\ c.high = run.high
    /\ c.low = run.low
    /\ c.close = run.close
    /\ c.volume = run.volume

\* C6 as stated: after any series of consecutive ticks sharing one
\* open_time, the candle of that open_time has high = max of the highs,
\* low = min of the lows, close and volume of the last tick.
MergeOfAnyRun ==
    run.n > 0 =>
        \/ active_candle # <<>> /\ MatchesRun(active_candle[1])
        \/ /\ active_candle = <<>> \/ active_candle[1].timestamp # run.timestamp
           /\ closed_candles # <<>>
           /\ MatchesRun(Last(closed_candles))

\* C6 amended: for a series of consecutive ticks sharing one open_time whose
\* first tick starts a new active candle, in which only the last tick may be
\* closed and none is dropped as a replay, the resulting candle (the active
\* candle, or the last closed candle when the last tick was closed) has
\* high = max of the highs, low = min of the lows, close and volume of the
\* last tick.
MergeOfCleanRun ==
    (run.n > 0 /\ run.clean) =>
        IF run.last_closed
        THEN /\ active_candle = <<>>
             /\ closed_candles # <<>>
             /\ MatchesRun(Last(closed_candles))
        ELSE /\ active_candle # <<>>
             /\ MatchesRun(active_candle[1])

\* C6 witness: a run of several ticks whose high and low come from
\* different ticks than its close
CleanRunMerged ==
    /\ run.n > 1
    /\ run.clean
    /\ last.outcome = "merged"
    /\ run.high # last.tick.high
    /\ run.low = last.tick.low

\* C7: no exception escapes from update (merge is only called with equal
\* timestamps).
UpdateNeverRaises == ~raised

\* C7 witness: merge ran, and a tick older than the closed history was
\* applied, without an exception
MergedAndOutOfOrder ==
    /\ ~raised
    /\ last.outcome = "merged"
    /\ closed_candles # <<>>
    /\ Last(closed_candles).timestamp > last.tick.timestamp

\* ------------------------------------------------------------------------
\* Properties of the dashboard's signal bookkeeping
\* ------------------------------------------------------------------------

\* the direction of the latest signal update_analysis produced
LatestDirection ==
    IF state.current_signal = <<>> THEN "NONE"
    ELSE state.current_signal[1].direction

\* C8 as stated: while the candle open-time is unchanged, at most one
\* record is created in total for each direction.
OneRecordPerDirectionAndCandle ==
    \A d \in {"BUY", "SELL"} : calls.made[d] <= 1

\* C8 amended: over consecutive generator invocations that produce the same
\* direction (BUY or SELL) for an unchanged candle open-time, with no HOLD
\* and no opposite signal in between, at most one record is created.
OneRecordPerStreak == calls.streak_created <= 1

\* C8 witness: a repeated signal of a streak that has created its record
\* was not recorded again
RepeatedSignalNotRecorded ==
    /\ calls.streak_n = 2
    /\ calls.streak_created = 1
    /\ ~calls.is_new
    /\ LatestDirection \in {"BUY", "SELL"}

\* C9: a non-HOLD signal that follows a HOLD signal creates a record.
SignalAfterHoldIsRecorded ==
    (calls.n > 0 /\ calls.after_hold /\ LatestDirection # "HOLD")
        => calls.is_new

\* C9 witness: the record created after a HOLD has the direction and the
\* candle open-time of the signal recorded before the HOLD
SameSignalRecordedAfterHold == calls.rerecorded

\* C10: at each horizon the verifications checked are those counted
\* correct plus those counted wrong.
ChecksAreCorrectPlusWrong ==
    LET stats == state.verification_stats
    IN  /\ stats.total_verified_10min = stats.correct_10min + stats.wrong_10min
        /\ stats.total_verified_30min = stats.correct_30min + stats.wrong_30min

\* C10 witness: a record was checked at both horizons, correct at one and
\* wrong at the other
CheckedAtBothHorizons ==
    LET stats == state.verification_stats
    IN  /\ stats.correct_10min = 1
        /\ stats.wrong_30min = 1
        /\ state.completed_verifications # <<>>

\* the verification records the dashboard holds, pending ones first
Records(st) == st.pending_verifications \o st.completed_verifications

\* the number of records of q that satisfy Test
CountOf(q, Test(_)) == Len(SelectSeq(q, Test))

\* no outcome is recorded before its check time
RecordedInTime ==
    \A i \in 1..Len(Records(state)) :
        LET r == Records(state)[i]
        IN  /\ r.verified_10min => now >= r.verify_10min_time
            /\ r.verified_30min => now >= r.verify_30min_time

\* while no record has been cut from completed_verifications, the checked
\* counter of a horizon is the number of records with an outcome for it
CheckedCountsRecordings ==
    state.total_signals = Len(Records(state)) =>
        /\ state.verification_stats.total_verified_10min =
               CountOf(Records(state), LAMBDA r : r.verified_10min)
        /\ state.verification_stats.total_verified_30min =
               CountOf(Records(state), LAMBDA r : r.verified_30min)

\* a recorded outcome of a pending record is never recorded again
RecordedOutcomeKept ==
    \A i \in 1..Len(state.pending_verifications) :
        \A j \in 1..Len(Records(state')) :
            LET pv == state.pending_verifications[i]
                r == Records(state')[j]
            IN  r.signal_id = pv.signal_id =>
                  /\ pv.verified_10min =>
                        /\ r.verified_10min
                        /\ r.result_10min = pv.result_10min
                        /\ r.price_at_10min = pv.price_at_10min
                        /\ r.profit_10min = pv.profit_10min
                  /\ pv.verified_30min =>
                        /\ r.verified_30min
                        /\ r.result_30min = pv.result_30min
                        /\ r.price_at_30min = pv.price_at_30min
                        /\ r.profit_30min = pv.profit_30min

\* the price moved strictly the way the signal said
MovedAsPredicted(direction, price, entry_price) ==
    \/ direction = "BUY" /\ price > entry_price
    \/ direction = "SELL" /\ price < entry_price

\* the outcome the strict move stands for
OutcomeOf(direction, price, entry_price) ==
    IF MovedAsPredicted(direction, price, entry_price)
    THEN "correct" ELSE "wrong"

\* C25: an outcome is correct exactly when the probe price is strictly
\* beyond the entry price in the predicted direction, at either horizon of
\* the dashboard and in the resonance system; a probe at the entry price
\* is wrong, and while no record has been cut the correct and wrong
\* counters count the records with those outcomes.
CorrectIffStrictMove ==
    /\ \A i \in 1..Len(Records(state)) :
          LET r == Records(state)[i]
          IN  /\ r.verified_10min =>
                    r.result_10min =
                        <<OutcomeOf(r.direction, r.price_at_10min[1],
                                    r.entry_price)>>
              /\ r.verified_30min =>
                    r.result_30min =
                        <<OutcomeOf(r.direction, r.price_at_30min[1],
                                    r.entry_price)>>
    /\ state.total_signals = Len(Records(state)) =>
          LET stats == state.verification_stats
          IN  /\ stats.correct_10min =
                    CountOf(Records(state), LAMBDA r :
                        /\ r.verified_10min
                        /\ MovedAsPredicted(r.direction, r.price_at_10min[1],
                                            r.entry_price))
              /\ stats.correct_30min =
                    CountOf(Records(state), LAMBDA r :
                        /\ r.verified_30min
                        /\ MovedAsPredicted(r.direction, r.price_at_30min[1],
                                            r.entry_price))
    /\ \A signal_type \in {"BUY", "SELL"} :
          \A price, entry_price \in {s.close : s \in Shapes} :
              IsCorrect(Predicted(signal_type), price, entry_price)
                  <=> MovedAsPredicted(signal_type, price, entry_price)

\* C25 witness: a record was probed at its entry price and counted wrong
ProbedAtEntryPrice ==
    /\ \E i \in 1..Len(Records(state)) :
          LET r == Records(state)[i]
          IN  /\ r.verified_10min
              /\ r.price_at_10min = <<r.entry_price>>
              /\ r.result_10min = <<"wrong">>
    /\ state.verification_stats.wrong_10min >= 1
    /\ state.verification_stats.correct_10min = 0

\* C11: for every pending record and each horizon, the outcome is recorded
\* at most once (once recorded it is never written again) and never before
\* now >= the horizon's check time, and each recording adds exactly 1 to
\* that horizon's checked counter.
OutcomeRecordedOnceInTime ==
    /\ [](RecordedInTime /\ CheckedCountsRecordings)
    /\ [][RecordedOutcomeKept]_vars

\* C11 witness: a pending record has its 10-minute outcome and not yet its
\* 30-minute outcome, and the price has changed since the outcome was
\* recorded
RecordedAtFirstHorizon ==
    /\ state.pending_verifications # <<>>
    /\ state.pending_verifications[1].verified_10min
    /\ ~state.pending_verifications[1].verified_30min
    /\ state.pending_verifications[1].price_at_10min # <<state.current_price>>
    /\ state.verification_stats.total_verified_10min = 1
    /\ state.verification_stats.total_verified_30min = 0

\* C12: a record leaves pending_verifications for completed_verifications
\* in the pass that resolves its last horizon: no record with both outcomes
\* stays pending, every completed record has both outcomes, every record
\* resolved at 30 minutes has been appended to completed_verifications
\* (which keeps the newest CompletedCap), and no record is in both lists.
MovedWhenFullyResolved ==
    /\ \A i \in 1..Len(state.pending_verifications) :
          LET pv == state.pending_verifications[i]
          IN  ~(pv.verified_10min /\ pv.verified_30min)
    /\ \A i \in 1..Len(state.completed_verifications) :
          LET cv == state.completed_verifications[i]
          IN  cv.verified_10min /\ cv.verified_30min
    /\ Len(state.completed_verifications) =
          Min(state.verification_stats.total_verified_30min, CompletedCap)
    /\ \A i \in 1..Len(state.pending_verifications) :
          \A j \in 1..Len(state.completed_verifications) :
              state.pending_verifications[i].signal_id #
                  state.completed_verifications[j].signal_id

\* C12 witness: a record resolved in two different passes (at two prices)
\* is in completed_verifications and no longer pending
MovedAfterSecondPass ==
    /\ state.completed_verifications # <<>>
    /\ state.pending_verifications = <<>>
    /\ state.completed_verifications[1].price_at_10min #
          state.completed_verifications[1].price_at_30min

\* C13: pending_verifications never holds more than its cap.
PendingWithinCap == Len(state.pending_verifications) <= PendingCap

\* the close of the newest tick the primary buffer has applied: the close
\* of the active candle, or of the last closed candle when none is active
NewestClose == Last(Closes(Buffer, TRUE))

\* C14: whenever a horizon of a record is resolved, the price recorded for
\* it is the close of the newest tick already applied to the buffer, in
\* every interleaving of frame handling and verification passes.
ProbedAgainstNewestClose ==
    [][ \A i \in 1..Len(state.pending_verifications) :
          \A j \in 1..Len(Records(state')) :
              LET pv == state.pending_verifications[i]
                  r == Records(state')[j]
              IN  r.signal_id = pv.signal_id =>
                    /\ (~pv.verified_10min /\ r.verified_10min)
                          => r.price_at_10min = <<NewestClose>>
                    /\ (~pv.verified_30min /\ r.verified_30min)
                          => r.price_at_30min = <<NewestClose>> ]_vars

\* ------------------------------------------------------------------------
\* Properties of the reconnect loops
\* ------------------------------------------------------------------------

\* C15 as stated: the wait after the k-th consecutive failure follows an
\* exponential backoff (starting from the 5 seconds of the first wait) and
\* never exceeds 10 seconds.
WaitIsExponentialUpToTen ==
    \A l \in Loops :
        loops[l].pc = "sleeping" =>
            loops[l].delay = Min(5 * 2 ^ (loops[l].failures - 1), 10)

\* C15 amended: the wait after the k-th consecutive failure is 5 * k seconds
\* in LiveDashboardSystem and LiveTradingSystemV2 (a linear backoff) and
\* 5 seconds in BinanceResonanceLiveTradingSystem, and it never exceeds
\* 5 * MAX_RETRIES seconds.
WaitIsLinearUpToMaxRetries ==
    \A l \in Loops :
        loops[l].pc = "sleeping" =>
            /\ loops[l].failures >= 1
            /\ loops[l].delay =
                  IF l \in Stoppable THEN 5 * loops[l].failures ELSE 5
            /\ loops[l].delay <= 5 * MAX_RETRIES

\* C15 witness: a loop waits 15 seconds after its third consecutive
\* failed connection attempt
WaitsAfterThirdFailure ==
    \E l \in Loops :
        /\ loops[l].pc = "sleeping"
        /\ loops[l].attempts = 3
        /\ loops[l].delay = 15

\* C16: a loop never makes more than MAX_RETRIES consecutive unsuccessful
\* connection attempts; after MAX_RETRIES of them it makes no further
\* attempt, and a loop that has terminated stays terminated.
GivesUpAfterMaxRetries ==
    /\ [](\A l \in Loops : loops[l].attempts <= MAX_RETRIES)
    /\ [][ \A l \in Loops :
             /\ loops[l].attempts = MAX_RETRIES =>
                   /\ loops'[l].attempts = MAX_RETRIES
                   /\ loops'[l].pc \in {"sleeping", "loop", "done"}
                   /\ loops[l].pc = "loop" => loops'[l].pc \in {"loop", "done"}
             /\ loops[l].pc = "done" =>
                   /\ loops'[l].pc = "done"
                   /\ loops'[l].attempts = loops[l].attempts ]_vars

\* C16 witness: a loop that is still meant to run has terminated after
\* MAX_RETRIES consecutive unsuccessful connection attempts
TerminatedAfterMaxRetries ==
    \E l \in Loops :
        /\ loops[l].pc = "done"
        /\ loops[l].attempts = MAX_RETRIES
        /\ l \in Stoppable
        /\ loops[l].is_running

\* ------------------------------------------------------------------------
\* Properties of the strategy layer
\* ------------------------------------------------------------------------

\* the conditions that open the three branches of _determine_market_state
StrongOrBreakoutBranch(a) ==
    /\ a.adx # <<>>
    /\ \/ a.adx[1] > StrongTrendThreshold
       \/ a.is_breakout /\ (a.atr_expanding \/ a.volume_spike)

TrendingBranch(a) == a.adx # <<>> /\ a.adx[1] >= RangingThreshold

RangingBranch(a) == a.adx # <<>> /\ a.adx[1] < RangingThreshold

TrendingStates == {"TRENDING_UP", "TRENDING_DOWN"}

BreakoutStates == {"BREAKOUT_UP", "BREAKOUT_DOWN"}

\* C20 as stated: the first branch whose condition holds decides the state,
\* and UNKNOWN comes only when no branch's condition holds, with
\* confidence 0.3
FirstMatchingBranchDecides ==
    call.op = "detect" =>
        LET a == call.args
            r == call.result
        IN  /\ StrongOrBreakoutBranch(a)
                => r.state \in BreakoutStates \cup TrendingStates
            /\ ~StrongOrBreakoutBranch(a) /\ TrendingBranch(a)
                => r.state \in TrendingStates
            /\ ~StrongOrBreakoutBranch(a) /\ ~TrendingBranch(a)
               /\ RangingBranch(a)
                => r.state = "RANGING"
            /\ r.state = "UNKNOWN"
                => /\ ~StrongOrBreakoutBranch(a)
                   /\ ~TrendingBranch(a)
                   /\ ~RangingBranch(a)
                   /\ r.confidence = 30

\* C20, amended: the branches are tried in order and the first one that
\* yields a state decides; a strong-trend or trending branch with equal
\* +DI and -DI yields none. UNKNOWN comes with confidence 0.0 when there
\* is no ADX, and otherwise exactly when ADX is at least the ranging
\* threshold, no breakout decided and the DI values are equal, with
\* confidence 0.3
FirstDecidingBranchDecides ==
    call.op = "detect" =>
        LET a == call.args
            r == call.result
            by_di == IF a.plus_di[1] > a.minus_di[1] THEN "TRENDING_UP"
                     ELSE "TRENDING_DOWN"
            directed == a.plus_di # a.minus_di
            broke_out == StrongOrBreakoutBranch(a) /\ a.is_breakout
        IN  /\ a.adx = <<>> => r = [state |-> "UNKNOWN", confidence |-> 0]
            /\ broke_out
                => /\ r.state = (IF a.breakout_direction = "up"
                                  THEN "BREAKOUT_UP" ELSE "BREAKOUT_DOWN")
                   /\ r.confidence \in {85, 90, 95}
            /\ StrongOrBreakoutBranch(a) /\ ~a.is_breakout /\ directed
                => r.state = by_di /\ r.confidence = 75
            /\ ~StrongOrBreakoutBranch(a) /\ TrendingBranch(a) /\ directed
                => r.state = by_di /\ r.confidence \in {60, 70, 80}
            /\ ~broke_out /\ RangingBranch(a)
                => r.state = "RANGING" /\ r.confidence \in {70, 75, 80, 85}
            /\ a.adx # <<>>
                => /\ r.state = "UNKNOWN"
                        <=> ~broke_out /\ TrendingBranch(a) /\ ~directed
                   /\ r.state = "UNKNOWN" => r.confidence = 30

\* detect answered UNKNOWN for a series too short for an ADX
UnknownWithoutADX ==
    /\ call.op = "detect"
    /\ call.args.adx = <<>>
    /\ call.result.state = "UNKNOWN"
    /\ call.result.confidence = 0

\* the timeframes whose result in a confirm outcome is REJECTED
Rejected(result) ==
    {tf \in DOMAIN result.timeframe_results :
        result.timeframe_results[tf].result = "REJECTED"}

\* C19: when every confirmation timeframe rejects the signal, confirm
\* answers is_confirmed = false and a final score of 0.3 times the
\* weighted score; when only some reject, the factor is 1 - 0.2 per
\* rejection and is_confirmed stays what the confirmation count makes it
AllRejectScalesByThreeTenths ==
    call.op = "confirm" /\ ~call.result.raised
    /\ call.args.signal_direction # "HOLD"
    => LET r == call.result
           weighted == CalculateFinalScore(call.args.primary_strength,
                                           r.timeframe_results)
           rejections == Cardinality(Rejected(r))
       IN  /\ Rejected(r) = ConfirmationTimeframes
               => /\ ~r.is_confirmed
                  /\ RatEq(r.final_score, <<3 * weighted[1], 10 * weighted[2]>>)
           /\ Rejected(r) # {} /\ Rejected(r) # ConfirmationTimeframes
               => /\ r.is_confirmed <=> r.confirmation_count >= MinConfirmations
                  /\ RatEq(r.final_score,
                           <<(10 - 2 * rejections) * weighted[1],
                             10 * weighted[2]>>)

\* both confirmation timeframes rejected a BUY whose weighted score is
\* positive
BothTimeframesRejected ==
    /\ call.op = "confirm"
    /\ ~call.result.raised
    /\ call.args.signal_direction = "BUY"
    /\ Rejected(call.result) = ConfirmationTimeframes
    /\ call.result.final_score[1] > 0
    /\ ~call.result.is_confirmed

\* C17 as stated: generate and every strategy's analyze return a signal
\* and never raise, and a signal without a direction is a HOLD that
\* carries a reason
StrategyLayerNeverRaises ==
    call.op \in {"generate", "analyze"} =>
        /\ ~call.result.raised
        /\ call.result.direction \in {"BUY", "SELL", "HOLD"}
        /\ call.result.direction = "HOLD" => call.result.reason # ""

\* the grade the thresholds 0.75, 0.50 and 0.30 give a strength
GradeOf(strength) ==
    IF 100 * strength[1] >= 75 * strength[2] THEN "A"
    ELSE IF 100 * strength[1] >= 50 * strength[2] THEN "B"
    ELSE IF 100 * strength[1] >= 30 * strength[2] THEN "C"
    ELSE "NONE"

GradeRank(grade) ==
    CASE grade = "NONE" -> 0
      [] grade = "C" -> 1
      [] grade = "B" -> 2
      [] grade = "A" -> 3

GradeIsOfAdjustedStrength ==
    /\ call.op = "grade" => call.result = GradeOf(<<call.args, 100>>)
    /\ call.op = "generate" /\ ~call.result.raised
        => call.result.grade = GradeOf(call.result.adjusted_strength)

GradeDoesNotDecrease ==
    call.op = "grade" /\ call'.op = "grade" /\ call.args <= call'.args
    => GradeRank(call.result) <= GradeRank(call'.result)

\* C18: the grade of a signal is A from an adjusted strength of 0.75, B
\* from 0.50, C from 0.30 and NONE below, whatever else the signal
\* carries, and of two strengths the larger never gets the lower grade
GradeStepsWithAdjustedStrength ==
    []GradeIsOfAdjustedStrength /\ [][GradeDoesNotDecrease]_vars

\* a strength of exactly 0.75 was graded A
GradedAAtThreshold ==
    /\ call.op = "grade"
    /\ call.args = 75
    /\ call.result = "A"

\* the count and strength of one direction in what the checks counted
Side(c, direction) ==
    IF direction = "BUY"
    THEN [signals |-> c.buy_signals, strength |-> c.buy_strength]
    ELSE [signals |-> c.sell_signals, strength |-> c.sell_strength]

\* C21 as stated: the ranging strategy never raises, emits a direction
\* only on two or more of its signals, and there is one strength
\* threshold: whenever it emits a direction at some strength, it emits on
\* every other reading whose count is at least two and whose strength is
\* at least as large
RangingEmitsFromThreshold ==
    call.op = "ranging" /\ call.args.n >= RangingMinCloses
    => LET c == call.args.conditions
           r == call.result
       IN  /\ ~r.raised
           /\ r.direction \in {"BUY", "SELL", "HOLD"}
           /\ r.direction # "HOLD" => Side(c, r.direction).signals >= 2
           /\ r.direction # "HOLD"
               => \A y \in RangingReadings, d \in {"BUY", "SELL"} :
                      LET cy == RangingConditions(y)
                      IN  /\ Side(cy, d).signals >= 2
                          /\ Side(cy, d).strength
                                >= Side(c, r.direction).strength
                          => RangingAnalyze(call.args.n, <<cy>>).direction = d

\* the prediction of a horizon among the predictions of a signal
PredictionFor(predictions, horizon) ==
    predictions[CHOOSE i \in DOMAIN predictions :
                    predictions[i].horizon_minutes = horizon]

\* C22: the predictions of a BUY or SELL signal of positive strength give
\* the 60-minute horizon a strictly smaller confidence than the 10-minute
\* horizon
ConfidenceDecaysWithHorizon ==
    call.op = "predict" /\ call.args.direction # "HOLD"
    /\ call.args.strength[1] > 0
    => PredictionFor(call.result, 60).confidence
         < PredictionFor(call.result, 10).confidence

\* a SELL that both timeframes rejected, of an adjusted strength below
\* 0.05, got its three predictions
WeakSignalPredicted ==
    /\ call.op = "predict"
    /\ call.args.direction = "SELL"
    /\ call.args.strength[1] > 0
    /\ 100 * call.args.strength[1] < 5 * call.args.strength[2]
    /\ Len(call.result) = 3


\* ------------------------------------------------------------------------
\* Properties of the indicator kernels
\* ------------------------------------------------------------------------

\* the Nones of a series come first
NonePrefix(series) ==
    \A i, j \in 1..Len(series) :
        i < j /\ series[j] = "None" => series[i] = "None"

\* C23: the series a kernel returns has one entry per input bar, whatever
\* the number of bars, and its Nones are the positions before the first
\* value
SeriesAlignedWithInput ==
    call.op = "calculate" =>
        /\ ~call.raises
        /\ Len(call.result) = call.args.n
        /\ NonePrefix(call.result)

\* C24: once more prices than the warm-up have been fed, update returns
\* the value that calculate gives last on the same prices
IncrementalEqualsBatch ==
    call.op = "update" /\ Len(rsi_indicator.price_history) > RSIPeriod =>
        LET batch == RSICalculateOn(rsi_indicator.price_history, RSIPeriod)
        IN  /\ call.result # <<>>
            /\ RatEq(call.result[1], Last(batch).rsi)


\* ------------------------------------------------------------------------
\* Properties of LiveTradingSystemV2
\* ------------------------------------------------------------------------

\* C27: a closed frame of the primary interval that the buffer drops as a
\* replay leaves signal_history as it was: no signal is generated for a
\* candle a second time
ReplayGeneratesNoSignal ==
    [][ last'.outcome = "dropped" /\ last'.tick.is_closed =>
            signal_history' = signal_history ]_vars


\* ------------------------------------------------------------------------
\* Properties of the resonance strategy
\* ------------------------------------------------------------------------

\* C28: calculate_resonance answers a score, whatever the switches and the
\* filters, also with the EMA layer off, the trend filter on and enough
\* indicators agreeing
CalculateResonanceNeverRaises ==
    call.op = "resonance" => ~call.result.raised


\* ------------------------------------------------------------------------
\* Properties of the buffer as objects
\* ------------------------------------------------------------------------

\* the candles the buffer object holds, as values
Held(h) ==
    [closed_candles |-> [i \in 1..Len(h.closed) |-> h.objects[h.closed[i]]],
     active_candle |-> IF h.active = <<>> THEN <<>>
                       ELSE <<h.objects[h.active[1]]>>,
     last_closed_ts |-> h.last_closed_ts]

\* C29: whatever the caller reads, and whatever it writes into the candles
\* it got from get_candles or handed to update, the buffer holds the
\* candles update made: it shares no object with the caller, and reading
\* leaves closed_candles, active_candle and last_closed_ts as they were
BufferKeptFromCaller ==
    /\ Held(heap).closed_candles = closed_candles
    /\ Held(heap).active_candle = active_candle
    /\ Held(heap).last_closed_ts = last_closed_ts
    /\ (Range(heap.closed) \cup Range(heap.active))
         \cap (Range(heap.tick) \cup Range(heap.returned)) = {}
    /\ call.op = "get_price_arrays"
         => call.result.closes = Closes(Buffer, call.args[1])

\* C29 witness: the caller has written into the candle it handed over and
\* into one it read, of a buffer that holds a closed and an active candle
CallerWroteIntoItsCandles ==
    /\ heap.closed # <<>>
    /\ heap.active # <<>>
    /\ heap.tick # <<>>
    /\ heap.objects[heap.tick[1]].close = 0
    /\ Len(heap.returned) = 2
    /\ heap.objects[heap.returned[1]].close = 0
    /\ heap.objects[heap.returned[2]].close = 0


\* ------------------------------------------------------------------------
\* Properties of MACDAnalyzer
\* ------------------------------------------------------------------------

\* the lines crossed between the reading before and this one
CrossedUp(self, current) ==
    /\ self.previous_values # <<>>
    /\ self.previous_values[1].macd_line # <<>>
    /\ current.macd_line # <<>>
    /\ self.previous_values[1].macd_line[1] < self.previous_values[1].signal_line[1]
    /\ current.macd_line[1] > current.signal_line[1]

CrossedDown(self, current) ==
    /\ self.previous_values # <<>>
    /\ self.previous_values[1].macd_line # <<>>
    /\ current.macd_line # <<>>
    /\ self.previous_values[1].macd_line[1] > self.previous_values[1].signal_line[1]
    /\ current.macd_line[1] < current.signal_line[1]

\* C30: get_filtered_signal answers strong_golden (strong_dead) exactly
\* when the lines crossed upwards (downwards) and all four conditions of
\* the result pass, weak_golden (weak_dead) exactly when they crossed and
\* two or three pass, and none otherwise; cross_detected says whether the
\* lines crossed, and without a cross the signal is none
StrengthCountsConditions ==
    call.op = "get_filtered_signal" =>
        LET result == call.result
            up == CrossedUp(call.args.self, call.args.current)
            down == CrossedDown(call.args.self, call.args.current)
            passed == Cardinality({k \in DOMAIN result.conditions :
                                     result.conditions[k]})
        IN  /\ result.cross_detected <=> (up \/ down)
            /\ result.signal = "strong_golden" <=> (up /\ passed = 4)
            /\ result.signal = "strong_dead" <=> (down /\ passed = 4)
            /\ result.signal = "weak_golden" <=> (up /\ passed \in {2, 3})
            /\ result.signal = "weak_dead" <=> (down /\ passed \in {2, 3})
            /\ result.signal = "none"
                 <=> (~result.cross_detected \/ passed \in {0, 1})

\* C30 witness: a cross that passed all four conditions
StrongCross ==
    /\ call.op = "get_filtered_signal"
    /\ call.result.signal \in {"strong_golden", "strong_dead"}

====
